---- MODULE Spec2Model ----
(***************************************************************************)
(* Context pipeline of the copilot orchestrator                            *)
(* (archive/scripts/context_manager.py with the pydantic models of         *)
(* scripts/models.py): token counting, chunk construction, gathering,      *)
(* prioritisation, compression, error-context injection and checkpoints.   *)
(*                                                                         *)
(* Text is a sequence of one-character strings, so that length, slicing,   *)
(* line splitting and whitespace normalisation are computed as the code    *)
(* computes them.  The token counter is the one the code uses when the     *)
(* tiktoken encoding cannot be loaded (self.encoding = None): the encoder  *)
(* itself is a third-party library and is not part of the repository.      *)
(***************************************************************************)
EXTENDS Integers, Sequences, FiniteSets, TLC

(***************************************************************************)
(* Bounds of the model                                                     *)
(***************************************************************************)
\* number of CompressedContext objects that add_error_context may allocate
MaxErrorContexts == 1
\* number of checkpoint operations (save, load, delete) in one run
MaxCheckpointOps == 3

(***************************************************************************)
(* Text helpers                                                            *)
(***************************************************************************)
NL == "\n"

\* Python None where an object may be absent; a present object x is <<x>>
None == <<>>

Some(x) == <<x>>

\* Body applied to the value of v, which is computed once
Bind(v, Body(_)) == CHOOSE r \in {Body(x) : x \in {v}} : TRUE

Min(a, b) == IF a < b THEN a ELSE b

Max(a, b) == IF a > b THEN a ELSE b

\* Python text[:k]
Prefix(text, k) ==
    IF k >= 0 THEN SubSeq(text, 1, Min(k, Len(text)))
    ELSE SubSeq(text, 1, Max(0, Len(text) + k))

\* Python text[k:] for k >= 0
Suffix(text, k) == SubSeq(text, Min(k, Len(text)) + 1, Len(text))

RECURSIVE Repeat(_, _)
Repeat(text, n) == IF n <= 0 THEN <<>> ELSE text \o Repeat(text, n - 1)

\* Python sep.join(parts)
RECURSIVE JoinFrom(_, _, _)
JoinFrom(sep, parts, i) ==
    IF i > Len(parts) THEN <<>>
    ELSE IF i = Len(parts) THEN parts[i]
    ELSE parts[i] \o sep \o JoinFrom(sep, parts, i + 1)

Join(sep, parts) == Bind(parts, LAMBDA ps : JoinFrom(sep, ps, 1))

\* Python text.startswith(p)
StartsWith(text, p) == Len(text) >= Len(p) /\ SubSeq(text, 1, Len(p)) = p

\* Python text.endswith(p)
EndsWith(text, p) ==
    Len(text) >= Len(p) /\ SubSeq(text, Len(text) - Len(p) + 1, Len(text)) = p

\* Python `p in text`
Contains(text, p) ==
    \E i \in 0..(Len(text) - Len(p)) : SubSeq(text, i + 1, i + Len(p)) = p

IsSpace(c) == c \in {" ", "\t", "\n", "\r", "\f"}

\* Python text.strip()
Strip(text) ==
    LET idx == {i \in 1..Len(text) : ~IsSpace(text[i])}
    IN  IF idx = {} THEN <<>>
        ELSE LET lo == CHOOSE i \in idx : \A j \in idx : i <= j
                 hi == CHOOSE i \in idx : \A j \in idx : i >= j
             IN  SubSeq(text, lo, hi)

\* Python text.split("\n"): the pieces of text between its newlines
SplitLines(text) ==
    Bind(<<0>> \o SelectSeq([i \in 1..Len(text) |-> i], LAMBDA i : text[i] = NL)
             \o <<Len(text) + 1>>,
         LAMBDA cuts :
             [k \in 1..(Len(cuts) - 1) |-> SubSeq(text, cuts[k] + 1, cuts[k + 1] - 1)])

\* Python text.lower() (the sample texts use lower-case letters and these capitals)
LowerChar(c) ==
    CASE c = "E" -> "e"
      [] c = "L" -> "l"
      [] c = "P" -> "p"
      [] c = "S" -> "s"
      [] OTHER -> c

Lower(text) == [i \in 1..Len(text) |-> LowerChar(text[i])]

(***************************************************************************)
(* Literal texts and name sets of the code                                 *)
(***************************************************************************)
\* the text "\n\n# ... (truncated) ...\n\n" of _smart_truncate_code
TruncationMarker ==
    <<NL, NL, "#", " ", ".", ".", ".", " ", "(", "t", "r", "u", "n", "c", "a",
    "t", "e", "d", ")", " ", ".", ".", ".", NL, NL>>

\* the text " (truncated)" appended to a source in excluded_sources
TruncatedSuffix ==
    <<" ", "(", "t", "r", "u", "n", "c", "a", "t", "e", "d", ")">>

S_import == <<"i", "m", "p", "o", "r", "t", " ">>

S_from == <<"f", "r", "o", "m", " ">>

S_require_call == <<"r", "e", "q", "u", "i", "r", "e", "(">>

S_const == <<"c", "o", "n", "s", "t", " ">>

S_require == <<"r", "e", "q", "u", "i", "r", "e">>

S_stack_trace ==
    <<NL, NL, "S", "t", "a", "c", "k", " ", "t", "r", "a", "c", "e", ":", NL>>

S_error_context ==
    <<"e", "r", "r", "o", "r", "_", "c", "o", "n", "t", "e", "x", "t">>

S_project_structure ==
    <<"p", "r", "o", "j", "e", "c", "t", "_", "s", "t", "r", "u", "c", "t",
    "u", "r", "e">>

S_error == <<"e", "r", "r", "o", "r">>

S_exception == <<"e", "x", "c", "e", "p", "t", "i", "o", "n">>

S_test == <<"t", "e", "s", "t">>

S_spec == <<"s", "p", "e", "c">>

CODE_EXTENSIONS ==
    {<<".", "p", "y">>, <<".", "j", "s">>, <<".", "t", "s">>, <<".", "j", "s",
    "x">>, <<".", "t", "s", "x">>, <<".", "g", "o">>, <<".", "r", "s">>,
    <<".", "j", "a", "v", "a">>, <<".", "c">>, <<".", "c", "p", "p">>, <<".",
    "h">>, <<".", "h", "p", "p">>, <<".", "c", "s">>, <<".", "r", "b">>,
    <<".", "p", "h", "p">>, <<".", "s", "w", "i", "f", "t">>, <<".", "k",
    "t">>, <<".", "s", "c", "a", "l", "a">>, <<".", "s", "h">>, <<".", "b",
    "a", "s", "h">>, <<".", "p", "s", "1">>, <<".", "s", "q", "l">>}

CONFIG_EXTENSIONS ==
    {<<".", "j", "s", "o", "n">>, <<".", "y", "a", "m", "l">>, <<".", "y",
    "m", "l">>, <<".", "t", "o", "m", "l">>, <<".", "x", "m", "l">>, <<".",
    "i", "n", "i">>, <<".", "e", "n", "v">>, <<".", "c", "o", "n", "f", "i",
    "g">>, <<".", "c", "f", "g">>}

DOC_EXTENSIONS ==
    {<<".", "m", "d">>, <<".", "t", "x", "t">>, <<".", "r", "s", "t">>, <<".",
    "a", "d", "o", "c">>}

IGNORE_DIRS ==
    {<<"n", "o", "d", "e", "_", "m", "o", "d", "u", "l", "e", "s">>, <<".",
    "g", "i", "t">>, <<"_", "_", "p", "y", "c", "a", "c", "h", "e", "_",
    "_">>, <<".", "v", "e", "n", "v">>, <<"v", "e", "n", "v">>, <<"d", "i",
    "s", "t">>, <<"b", "u", "i", "l", "d">>, <<".", "n", "e", "x", "t">>,
    <<".", "n", "u", "x", "t">>, <<"t", "a", "r", "g", "e", "t">>, <<"b", "i",
    "n">>, <<"o", "b", "j">>, <<".", "p", "y", "t", "e", "s", "t", "_", "c",
    "a", "c", "h", "e">>, <<".", "m", "y", "p", "y", "_", "c", "a", "c", "h",
    "e">>, <<".", "r", "u", "f", "f", "_", "c", "a", "c", "h", "e">>, <<"c",
    "o", "v", "e", "r", "a", "g", "e">>}

dep_files ==
    <<<<"p", "a", "c", "k", "a", "g", "e", ".", "j", "s", "o", "n">>, <<"r",
    "e", "q", "u", "i", "r", "e", "m", "e", "n", "t", "s", ".", "t", "x",
    "t">>, <<"p", "y", "p", "r", "o", "j", "e", "c", "t", ".", "t", "o", "m",
    "l">>, <<"C", "a", "r", "g", "o", ".", "t", "o", "m", "l">>, <<"g", "o",
    ".", "m", "o", "d">>, <<"p", "o", "m", ".", "x", "m", "l">>, <<"b", "u",
    "i", "l", "d", ".", "g", "r", "a", "d", "l", "e">>>>

(***************************************************************************)
(* TokenCounter (encoding = None)                                          *)
(***************************************************************************)
\* one token per CharsPerToken characters: len(text) // 4
CharsPerToken == 4

\* TokenCounter.count.  The cache maps a content hash to the count computed
\* here, so a cached answer is the same number.
count(text) == IF text = <<>> THEN 0 ELSE Len(text) \div CharsPerToken

count_tokens(text) == count(text)

\* TokenCounter.truncate_to_tokens
truncate_to_tokens(text, max_tokens) ==
    IF count(text) <= max_tokens THEN text
    ELSE Prefix(text, max_tokens * CharsPerToken)

(***************************************************************************)
(* models.py: TokenBudget, ContextChunk, CompressedContext                 *)
(***************************************************************************)
InputMaxFloor == 1000

InputMaxCeiling == 128000

\* TokenBudget(...): the field constraints of the model
ValidBudget(b) ==
    /\ b.input_max >= InputMaxFloor /\ b.input_max <= InputMaxCeiling
    /\ b.input_used >= 0
    /\ b.reserved >= 0

\* TokenBudget.consume_input, TokenBudget.consume_output: the budget afterwards
\* (an assignment is not validated against the field constraints)
consume_input(b, tokens) == [b EXCEPT !.input_used = @ + tokens]

consume_output(b, tokens) == [b EXCEPT !.output_used = @ + tokens]

\* TokenBudget.input_available
input_available(b) == Max(0, b.input_max - b.input_used - b.reserved)

ChunkTypes ==
    {"file", "snippet", "error", "structure", "dependency", "history",
     "metadata"}

\* ContextPriority: member name -> value
PriorityValue(p) ==
    CASE p = "CRITICAL" -> "critical"
      [] p = "HIGH" -> "high"
      [] p = "MEDIUM" -> "medium"
      [] p = "LOW" -> "low"
      [] p = "MINIMAL" -> "minimal"

ContextPriority == {"CRITICAL", "HIGH", "MEDIUM", "LOW", "MINIMAL"}

\* the positions where a run of four or more newlines starts
LongRunStarts(v) ==
    {i \in 1..(Len(v) - 3) :
        /\ \A k \in i..(i + 3) : v[k] = NL
        /\ i = 1 \/ v[i - 1] # NL}

\* the last position of the run of newlines that starts at position i
RunEnd(v, i) ==
    CHOOSE e \in i..Len(v) :
        /\ \A k \in i..e : v[k] = NL
        /\ e = Len(v) \/ v[e + 1] # NL

\* ContextChunk.strip_excessive_whitespace: re.sub(r'\n{4,}', '\n\n\n', v),
\* one long run after the other from the left
RECURSIVE strip_excessive_whitespace(_)
strip_excessive_whitespace(v) ==
    Bind(LongRunStarts(v), LAMBDA starts :
        IF starts = {} THEN v
        ELSE Bind(CHOOSE x \in starts : \A y \in starts : x <= y, LAMBDA i :
                 Bind(SubSeq(v, RunEnd(v, i) + 1, Len(v)), LAMBDA rest :
                     SubSeq(v, 1, i + 2) \o strip_excessive_whitespace(rest))))

\* ContextChunk(...): the field constraints checked at construction
ValidChunk(content, chunk_type, priority, token_count) ==
    /\ Len(content) >= 1
    /\ chunk_type \in ChunkTypes
    /\ priority \in ContextPriority
    /\ token_count >= 0

\* ContextChunk(...): the object built when the constraints hold; the content
\* validator runs on the content, every other field is stored as given
ContextChunk(chunk_id, content, source, chunk_type, priority, token_count, metadata) ==
    [chunk_id |-> chunk_id,
     content |-> strip_excessive_whitespace(content),
     source |-> source,
     chunk_type |-> chunk_type,
     priority |-> priority,
     token_count |-> token_count,
     metadata |-> metadata]

\* CompressedContext(...): the field constraints checked at construction
ValidContext(total_tokens, ratio) ==
    /\ total_tokens >= 0
    /\ ratio.num >= 0

\* compression_ratio is the float original / total; it is kept as the pair of
\* integers it is computed from (the literal 1.0 is 1 / 1)
CompressedContext(chunks, total_tokens, compression_ratio, excluded_sources, summary) ==
    [chunks |-> chunks,
     total_tokens |-> total_tokens,
     compression_ratio |-> compression_ratio,
     excluded_sources |-> excluded_sources,
     summary |-> summary]

(***************************************************************************)
(* ContextCompressor                                                       *)
(***************************************************************************)
\* _truncate_chunk: below this many tokens nothing is kept
MinTruncateTokens == 50

\* int(max_tokens * 0.3)
ImportBudget(max_tokens) == (max_tokens * 3) \div 10

\* the test of _smart_truncate_code on one line
IsImportLine(line) ==
    LET stripped == Strip(line)
    IN  \/ StartsWith(stripped, S_import)
        \/ StartsWith(stripped, S_from)
        \/ StartsWith(stripped, S_require_call)
        \/ (StartsWith(stripped, S_const) /\ Contains(stripped, S_require))

IsCodeLine(line) == ~IsImportLine(line)

\* ContextCompressor._smart_truncate_code
_smart_truncate_code(content, max_tokens) ==
    Bind(SplitLines(content), LAMBDA lines :
        LET imports == SelectSeq(lines, IsImportLine)
            code == SelectSeq(lines, IsCodeLine)
            import_budget == ImportBudget(max_tokens)
        IN  Bind(Join(<<NL>>, imports), LAMBDA joined :
                Bind(IF count(joined) > import_budget
                     THEN truncate_to_tokens(joined, import_budget)
                     ELSE joined,
                     LAMBDA import_text :
                         LET code_budget == max_tokens - count(import_text)
                             code_text ==
                                 truncate_to_tokens(Join(<<NL>>, code), code_budget)
                         IN  import_text \o TruncationMarker \o code_text)))

\* ContextCompressor._truncate_chunk: the truncated chunk, or None
_truncate_chunk(chunk, max_tokens) ==
    IF max_tokens < MinTruncateTokens THEN None
    ELSE Bind(IF chunk.chunk_type = "file"
              THEN _smart_truncate_code(chunk.content, max_tokens)
              ELSE truncate_to_tokens(chunk.content, max_tokens),
              LAMBDA content :
                  Some(ContextChunk(chunk.chunk_id, content, chunk.source,
                                    chunk.chunk_type, chunk.priority, count(content),
                                    [truncated |-> TRUE] @@ chunk.metadata)))

\* a variant of the loop body that puts a chunk that fits at the head of the list
CompressChunkAtHead(st, chunk, available) ==
    IF st.total_tokens + chunk.token_count <= available
    THEN [st EXCEPT !.included = <<chunk>> \o @,
                    !.total_tokens = @ + chunk.token_count]
    ELSE [st EXCEPT !.excluded_sources = Append(@, chunk.source)]

\* the step of the loop with the record of a boundary chunk kept for the
\* chunks that were truncated only
CompressChunkRecordTruncatedOnly(st, chunk, available) ==
    LET tokens_needed == chunk.token_count
    IN  IF st.total_tokens + tokens_needed <= available
        THEN [st EXCEPT !.included = Append(@, chunk),
                        !.total_tokens = @ + tokens_needed]
        ELSE IF st.total_tokens < available
             THEN LET remaining == available - st.total_tokens
                  IN  Bind(_truncate_chunk(chunk, remaining), LAMBDA truncated :
                          IF truncated # None
                          THEN [st EXCEPT
                                   !.included = Append(@, truncated[1]),
                                   !.total_tokens = @ + truncated[1].token_count,
                                   !.excluded_sources =
                                       Append(@, chunk.source \o TruncatedSuffix)]
                          ELSE st)
             ELSE [st EXCEPT !.excluded_sources = Append(@, chunk.source)]

\* the body of the loop of compress for one chunk; st holds the locals
\* included, excluded_sources and total_tokens
CompressChunk(st, chunk, available) ==
    LET tokens_needed == chunk.token_count
    IN  IF st.total_tokens + tokens_needed <= available
        THEN [st EXCEPT !.included = Append(@, chunk),
                        !.total_tokens = @ + tokens_needed]
        ELSE IF st.total_tokens < available
             THEN LET remaining == available - st.total_tokens
                  IN  Bind(_truncate_chunk(chunk, remaining), LAMBDA truncated :
                          LET kept ==
                                  IF truncated # None
                                  THEN [st EXCEPT
                                           !.included = Append(@, truncated[1]),
                                           !.total_tokens = @ + truncated[1].token_count]
                                  ELSE st
                          IN  [kept EXCEPT !.excluded_sources =
                                               Append(@, chunk.source \o TruncatedSuffix)])
             ELSE [st EXCEPT !.excluded_sources = Append(@, chunk.source)]

RECURSIVE CompressLoop(_, _, _, _)
CompressLoop(chunks, i, st, available) ==
    IF i > Len(chunks) THEN st
    ELSE Bind(CompressChunk(st, chunks[i], available), LAMBDA next :
             CompressLoop(chunks, i + 1, next, available))

RECURSIVE SumTokens(_)
SumTokens(chunks) ==
    IF chunks = <<>> THEN 0 ELSE chunks[1].token_count + SumTokens(Tail(chunks))

SummarySources == 5

\* ContextCompressor._generate_summary: the parts the text is formatted from
\* (the number of chunks, the first five sources, whether "..." follows, and
\* the set of chunk types)
_generate_summary(chunks) ==
    [n |-> Len(chunks),
     sources |-> [i \in 1..Min(SummarySources, Len(chunks)) |-> chunks[i].source],
     more |-> Len(chunks) > SummarySources,
     types |-> {chunks[i].chunk_type : i \in 1..Len(chunks)}]

\* ContextCompressor.compress
compress(chunks, budget) ==
    Bind(CompressLoop(chunks, 1,
             [included |-> <<>>, excluded_sources |-> <<>>, total_tokens |-> 0],
             input_available(budget)),
         LAMBDA st :
             LET original_tokens == SumTokens(chunks)
                 ratio == IF st.total_tokens > 0
                          THEN [num |-> original_tokens, den |-> st.total_tokens]
                          ELSE [num |-> 1, den |-> 1]
             IN  CompressedContext(st.included, st.total_tokens, ratio,
                     st.excluded_sources,
                     IF st.included # <<>> THEN Some(_generate_summary(st.included))
                     ELSE None))

(***************************************************************************)
(* The workspace: the files of the sample project trees                    *)
(***************************************************************************)
\* the characters of the sample names in code point order (str comparison)
AsciiOrder ==
    <<" ", "'", "(", ")", ",", "-", ".", "/", "0", "1", "2", "3", "4", "5",
    "6", "7", "8", "9", ":", "=", "C", "E", "L", "S", "_", "a", "b", "c", "d",
    "e", "f", "g", "h", "i", "j", "k", "l", "m", "n", "o", "p", "q", "r", "s",
    "t", "u", "v", "w", "x", "y", "z", "{", "}">>

\* ContextGatherer._detect_language: ext_to_lang.get(suffix, "text")
_detect_language(ext) ==
    CASE ext = <<".", "p", "y">> -> "python"
      [] ext = <<".", "j", "s">> -> "javascript"
      [] ext = <<".", "t", "s">> -> "typescript"
      [] ext = <<".", "j", "s", "x">> -> "jsx"
      [] ext = <<".", "t", "s", "x">> -> "tsx"
      [] ext = <<".", "g", "o">> -> "go"
      [] ext = <<".", "r", "s">> -> "rust"
      [] ext = <<".", "j", "a", "v", "a">> -> "java"
      [] ext = <<".", "c">> -> "c"
      [] ext = <<".", "c", "p", "p">> -> "cpp"
      [] ext = <<".", "h">> -> "c"
      [] ext = <<".", "h", "p", "p">> -> "cpp"
      [] ext = <<".", "c", "s">> -> "csharp"
      [] ext = <<".", "r", "b">> -> "ruby"
      [] ext = <<".", "p", "h", "p">> -> "php"
      [] ext = <<".", "s", "w", "i", "f", "t">> -> "swift"
      [] ext = <<".", "k", "t">> -> "kotlin"
      [] ext = <<".", "s", "c", "a", "l", "a">> -> "scala"
      [] ext = <<".", "s", "h">> -> "bash"
      [] ext = <<".", "b", "a", "s", "h">> -> "bash"
      [] ext = <<".", "p", "s", "1">> -> "powershell"
      [] ext = <<".", "s", "q", "l">> -> "sql"
      [] ext = <<".", "j", "s", "o", "n">> -> "json"
      [] ext = <<".", "y", "a", "m", "l">> -> "yaml"
      [] ext = <<".", "y", "m", "l">> -> "yaml"
      [] ext = <<".", "t", "o", "m", "l">> -> "toml"
      [] ext = <<".", "x", "m", "l">> -> "xml"
      [] ext = <<".", "m", "d">> -> "markdown"
      [] OTHER -> "text"

L_import_os == <<"i", "m", "p", "o", "r", "t", " ", "o", "s">>

L_from_a ==
    <<"f", "r", "o", "m", " ", "a", " ", "i", "m", "p", "o", "r", "t", " ",
    "b">>

L_require_q == <<"r", "e", "q", "u", "i", "r", "e", "(", "'", "q", "'", ")">>

L_const_z ==
    <<"c", "o", "n", "s", "t", " ", "z", " ", "=", " ", "r", "e", "q", "u",
    "i", "r", "e", "(", "'", "z", "'", ")">>

L_code == <<"y", " ", "=", " ", "f", "(", "y", ")">>

L_note == <<"n", "o", "t", "e", " ", "o", "n", " ", "l", "o", "g", "i", "n">>

L_key == <<"\"", "k", "\"", ":", " ", "1", ",">>

L_flask == <<"f", "l", "a", "s", "k", "=", "=", "2", ".", "0">>

N_ws == <<"w", "s">>

N_app_py == <<"a", "p", "p", ".", "p", "y">>

N_docs == <<"d", "o", "c", "s">>

N_notes_md == <<"n", "o", "t", "e", "s", ".", "m", "d">>

N_cfg_json == <<"c", "f", "g", ".", "j", "s", "o", "n">>

N_t_txt == <<"t", ".", "t", "x", "t">>

N_requirements_txt ==
    <<"r", "e", "q", "u", "i", "r", "e", "m", "e", "n", "t", "s", ".", "t",
    "x", "t">>

N_node_modules ==
    <<"n", "o", "d", "e", "_", "m", "o", "d", "u", "l", "e", "s">>

N_x_js == <<"x", ".", "j", "s">>

N_big_py == <<"b", "i", "g", ".", "p", "y">>

N_logo_png == <<"l", "o", "g", "o", ".", "p", "n", "g">>

N_empty_md == <<"e", "m", "p", "t", "y", ".", "m", "d">>

N_secret_py == <<"s", "e", "c", "r", "e", "t", ".", "p", "y">>

K_login == <<"l", "o", "g", "i", "n">>

K_handler == <<"h", "a", "n", "d", "l", "e", "r">>

K_cfg == <<"c", "f", "g">>

S_slash == <<"/">>

S_four_spaces == <<" ", " ", " ", " ">>

N_conf_yaml == <<"c", "o", "n", "f", ".", "y", "a", "m", "l">>

L_yaml ==
    <<"r", "e", "t", "r", "i", "e", "s", "_", "o", "n", "_", "e", "r", "r",
    "o", "r", ":", " ", "3", ",", " ", "#", " ", "k", "e", "e", "p">>

T_boom ==
    <<"b", "o", "o", "m", ":", " ", "e", "r", "r", "o", "r", " ", "i", "n",
    " ", "h", "a", "n", "d", "l", "e", "r">>

T_trace == <<"t", "b">>

ImportLines ==
    <<L_import_os, L_import_os, L_import_os, L_import_os, L_import_os,
      L_from_a, L_require_q, L_const_z>>

AppCodeLines == 40

NoteLines == 18

RequirementLines == 24

BlankRun == 400

YamlLines == 10

\* app.py: 8 import-like lines and 40 lines of code, 115 tokens
AppPyContent == Join(<<NL>>, ImportLines \o [i \in 1..AppCodeLines |-> L_code])

\* docs/notes.md: 18 lines of prose, 62 tokens
NotesContent == Join(<<NL>>, [i \in 1..NoteLines |-> L_note])

\* cfg.json: a long run of blank lines between its keys, 112 tokens as read
CfgContent ==
    L_key \o [i \in 1..BlankRun |-> NL] \o Repeat(L_key, 6)

\* requirements.txt: 24 pinned packages, 65 tokens
RequirementsContent == Join(<<NL>>, [i \in 1..RequirementLines |-> L_flask])

\* conf.yaml: 10 keys, 70 tokens
YamlContent == Join(<<NL>>, [i \in 1..YamlLines |-> L_yaml])

TinyContent == <<"h", "i">>

\* a file of the workspace: its path below the root, its size in bytes, its
\* text, and whether stat() and read_text() succeed on it
MkFile(parts, content) ==
    [parts |-> parts, size |-> Len(content), content |-> content,
     readable |-> TRUE, stat_ok |-> TRUE]

F_app == MkFile(<<N_app_py>>, AppPyContent)

F_notes == MkFile(<<N_docs, N_notes_md>>, NotesContent)

F_cfg == MkFile(<<N_cfg_json>>, CfgContent)

F_tiny == MkFile(<<N_t_txt>>, TinyContent)

F_yaml == MkFile(<<N_conf_yaml>>, YamlContent)

F_req == MkFile(<<N_requirements_txt>>, RequirementsContent)

F_ignored == MkFile(<<N_node_modules, N_x_js>>, L_code)

F_png == MkFile(<<N_logo_png>>, L_code)

F_empty == MkFile(<<N_empty_md>>, <<>>)

F_secret == [MkFile(<<N_secret_py>>, L_code) EXCEPT !.readable = FALSE]

\* big.py is larger than max_file_size; its text is never read
F_big == [MkFile(<<N_big_py>>, L_code) EXCEPT !.size = 200000]

\* the request of the login scenario
R_login ==
    <<"P", "l", "e", "a", "s", "e", " ", "a", "d", "d", " ", "i", "n",
    "p", "u", "t", " ", "v", "a", "l", "i", "d", "a", "t", "i", "o", "n",
    " ", "t", "o", " ", "t", "h", "e", " ", "l", "o", "g", "i", "n",
    " ", "h", "a", "n", "d", "l", "e", "r">>

N_login_py == <<"l", "o", "g", "i", "n", ".", "p", "y">>

N_misc_py == <<"m", "i", "s", "c", ".", "p", "y">>

N_plain_md == <<"p", "l", "a", "i", "n", ".", "m", "d">>

N_handler_md == <<"h", "a", "n", "d", "l", "e", "r", ".", "m", "d">>

L_login_def ==
    <<"d", "e", "f", " ", "l", "o", "g", "i", "n", "(", ")", ":", " ",
    "p", "a", "s", "s">>

L_misc ==
    <<"i", "n", "p", "u", "t", " ", "v", "a", "l", "i", "d", "a", "t", "i",
    "o", "n", " ", "e", "r", "r", "o", "r", " ", "i", "n", " ", "l",
    "o", "g", "i", "n", " ", "h", "a", "n", "d", "l", "e", "r">>

L_plain == <<"r", "e", "a", "d", "m", "e">>

F_login == MkFile(<<N_login_py>>, L_login_def)

F_misc == MkFile(<<N_misc_py>>, L_misc)

F_plain == MkFile(<<N_plain_md>>, L_plain)

F_handler == MkFile(<<N_handler_md>>, L_plain)

\* the parts of the workspace root path
WorkspaceParts == <<N_ws>>

(***************************************************************************)
(* ContextGatherer                                                         *)
(***************************************************************************)
max_file_size == 100000

\* PurePath.suffix of a file name
PathSuffix(name) ==
    LET dots == {i \in 1..Len(name) : name[i] = "."}
        last == IF dots = {} THEN 0 ELSE CHOOSE i \in dots : \A j \in dots : j <= i
    IN  IF last > 1 /\ last < Len(name) THEN SubSeq(name, last, Len(name)) ELSE <<>>

FileName(file) == file.parts[Len(file.parts)]

\* str(file_path.relative_to(self.workspace))
RelativePath(file) == Join(S_slash, file.parts)

\* ContextGatherer._walk_files: walk is the order in which rglob yields the files
KeptByWalk(file, extensions) ==
    /\ ~\E i \in 1..Len(WorkspaceParts) : WorkspaceParts[i] \in IGNORE_DIRS
    /\ ~\E i \in 1..Len(file.parts) : file.parts[i] \in IGNORE_DIRS
    /\ Lower(PathSuffix(FileName(file))) \in extensions
    /\ file.stat_ok
    /\ file.size <= max_file_size

_walk_files(walk, extensions) ==
    LET Kept(file) == KeptByWalk(file, extensions)
    IN  SelectSeq(walk, Kept)

\* ContextGatherer._read_file: the text, or None
_read_file(file) == IF file.readable THEN Some(file.content) ELSE None

\* the chunk _gather_files builds for one file that was read
FileChunk(file, chunk_id, focus_files) ==
    LET relative_path == RelativePath(file)
        is_focus == \E i \in 1..Len(focus_files) :
                        \/ EndsWith(relative_path, focus_files[i])
                        \/ Contains(relative_path, focus_files[i])
        ext == Lower(PathSuffix(FileName(file)))
        chunk_type == IF ext \in CODE_EXTENSIONS THEN "file"
                      ELSE IF ext \in CONFIG_EXTENSIONS THEN "metadata"
                      ELSE "file"
    IN  ContextChunk(chunk_id, file.content, relative_path, chunk_type,
                     IF is_focus THEN "CRITICAL" ELSE "MEDIUM",
                     count_tokens(file.content),
                     [language |-> _detect_language(ext),
                      size_bytes |-> Len(file.content)])

\* the loop of _gather_files: a file that cannot be read is skipped, a chunk
\* that cannot be constructed is logged and skipped
RECURSIVE FileChunksFrom(_, _, _)
FileChunksFrom(found, i, focus_files) ==
    IF i > Len(found) THEN <<>>
    ELSE (IF /\ _read_file(found[i]) # None
             /\ ValidChunk(found[i].content, "file", "MEDIUM",
                           count_tokens(found[i].content))
          THEN <<FileChunk(found[i], <<1, i>>, focus_files)>>
          ELSE <<>>)
         \o FileChunksFrom(found, i + 1, focus_files)

\* ContextGatherer._gather_files
_gather_files(walk, focus_files) ==
    Bind(_walk_files(walk, CODE_EXTENSIONS \cup CONFIG_EXTENSIONS \cup DOC_EXTENSIONS),
         LAMBDA found : FileChunksFrom(found, 1, focus_files))

Ord(c) == CHOOSE i \in 1..Len(AsciiOrder) : AsciiOrder[i] = c

\* Python a < b on str
RECURSIVE StrLess(_, _)
StrLess(a, b) ==
    IF a = <<>> THEN b # <<>>
    ELSE IF b = <<>> THEN FALSE
    ELSE IF a[1] = b[1] THEN StrLess(Tail(a), Tail(b))
    ELSE Ord(a[1]) < Ord(b[1])

\* path.iterdir() of the directory dir: its entries with is_file()
DirEntries(walk, dir) ==
    {[name |-> walk[k].parts[Len(dir) + 1],
      is_file |-> Len(walk[k].parts) = Len(dir) + 1] :
        k \in {j \in 1..Len(walk) :
                  /\ Len(walk[j].parts) > Len(dir)
                  /\ SubSeq(walk[j].parts, 1, Len(dir)) = dir}}

\* the sort key (p.is_file(), p.name)
EntryLess(a, b) ==
    \/ ~a.is_file /\ b.is_file
    \/ a.is_file = b.is_file /\ StrLess(a.name, b.name)

RECURSIVE SortedEntries(_)
SortedEntries(entries) ==
    IF entries = {} THEN <<>>
    ELSE LET first == CHOOSE e \in entries :
                          \A o \in entries \ {e} : EntryLess(e, o)
         IN  <<first>> \o SortedEntries(entries \ {first})

\* the box-drawing characters, one character each
Connector(is_last) ==
    IF is_last THEN <<"BOX_UP_RIGHT", "BOX_HORIZONTAL", "BOX_HORIZONTAL", " ">>
    ELSE <<"BOX_VERTICAL_RIGHT", "BOX_HORIZONTAL", "BOX_HORIZONTAL", " ">>

Extension(is_last) ==
    IF is_last THEN S_four_spaces ELSE <<"BOX_VERTICAL", " ", " ", " ">>

\* build_tree of _gather_structure: the lines for the entries i.. of dir
RECURSIVE TreeLinesFrom(_, _, _, _, _)
TreeLinesFrom(walk, dir, prefix, entries, i) ==
    IF i > Len(entries) THEN <<>>
    ELSE LET entry == entries[i]
             is_last == i = Len(entries)
             below == dir \o <<entry.name>>
             lines ==
                 IF ~entry.is_file
                 THEN IF entry.name \in IGNORE_DIRS THEN <<>>
                      ELSE <<prefix \o Connector(is_last) \o entry.name \o S_slash>>
                           \o Bind(SortedEntries(DirEntries(walk, below)),
                                   LAMBDA inside :
                                       TreeLinesFrom(walk, below,
                                           prefix \o Extension(is_last), inside, 1))
                 ELSE <<prefix \o Connector(is_last) \o entry.name>>
         IN  lines \o TreeLinesFrom(walk, dir, prefix, entries, i + 1)

build_tree(walk) ==
    Bind(SortedEntries(DirEntries(walk, <<>>)), LAMBDA entries :
        TreeLinesFrom(walk, <<>>, <<>>, entries, 1))

\* ContextGatherer._gather_structure
_gather_structure(walk) ==
    Bind(<<WorkspaceParts[Len(WorkspaceParts)] \o S_slash>> \o build_tree(walk),
         LAMBDA tree_lines :
             Bind(Join(<<NL>>, tree_lines), LAMBDA content :
                 <<ContextChunk(<<2, 1>>, content, S_project_structure, "structure",
                                "LOW", count_tokens(content),
                                [entry_count |-> Len(tree_lines)])>>))

\* the loop of _gather_dependencies over dep_files
RECURSIVE DependencyChunksFrom(_, _)
DependencyChunksFrom(walk, i) ==
    IF i > Len(dep_files) THEN <<>>
    ELSE Bind(SelectSeq(walk, LAMBDA f : f.parts = <<dep_files[i]>>), LAMBDA here :
             (IF here # <<>> /\ _read_file(here[1]) # None /\ here[1].content # <<>>
              THEN <<ContextChunk(<<3, i>>, here[1].content, dep_files[i],
                                  "dependency", "MEDIUM",
                                  count_tokens(here[1].content),
                                  [type |-> "dependency_manifest"])>>
              ELSE <<>>)
             \o DependencyChunksFrom(walk, i + 1))

\* ContextGatherer._gather_dependencies
_gather_dependencies(walk) == DependencyChunksFrom(walk, 1)

(***************************************************************************)
(* ContextPrioritizer                                                      *)
(***************************************************************************)
TaskType ==
    {"IMPLEMENT", "ANALYZE", "GENERATE", "REFACTOR", "DEBUG", "TEST", "DEPLOY",
     "AUTOMATE", "SCAFFOLD", "MIGRATE", "OPTIMIZE", "UNKNOWN"}

\* ContextPrioritizer.PRIORITY_SCORES.get(priority, 500)
PRIORITY_SCORES(priority) ==
    CASE priority = "CRITICAL" -> 1000
      [] priority = "HIGH" -> 800
      [] priority = "MEDIUM" -> 500
      [] priority = "LOW" -> 200
      [] priority = "MINIMAL" -> 50
      [] OTHER -> 500

\* ContextPrioritizer.TASK_PATTERNS.get(task_type, [])
TASK_PATTERNS(task_type) ==
    CASE task_type = "IMPLEMENT" ->
            <<<<"m", "o", "d", "e", "l">>, <<"s", "e", "r", "v", "i", "c",
            "e">>, <<"h", "a", "n", "d", "l", "e", "r">>, <<"c", "o", "n",
            "t", "r", "o", "l", "l", "e", "r">>, <<"r", "o", "u", "t", "e">>>>
      [] task_type = "TEST" ->
            <<<<"t", "e", "s", "t">>, <<"s", "p", "e", "c">>, <<"m", "o", "c",
            "k">>, <<"f", "i", "x", "t", "u", "r", "e">>>>
      [] task_type = "DEBUG" ->
            <<<<"e", "r", "r", "o", "r">>, <<"e", "x", "c", "e", "p", "t",
            "i", "o", "n">>, <<"l", "o", "g">>>>
      [] task_type = "DEPLOY" ->
            <<<<"d", "o", "c", "k", "e", "r">>, <<"k", "u", "b", "e", "r",
            "n", "e", "t", "e", "s">>, <<"c", "i">>, <<"c", "d">>, <<"p", "i",
            "p", "e", "l", "i", "n", "e">>, <<"d", "e", "p", "l", "o", "y">>>>
      [] task_type = "REFACTOR" ->
            <<<<"u", "t", "i", "l">>, <<"h", "e", "l", "p", "e", "r">>, <<"c",
            "o", "m", "m", "o", "n">>, <<"s", "h", "a", "r", "e", "d">>>>
      [] task_type = "OPTIMIZE" ->
            <<<<"p", "e", "r", "f", "o", "r", "m", "a", "n", "c", "e">>,
            <<"c", "a", "c", "h", "e">>, <<"i", "n", "d", "e", "x">>, <<"q",
            "u", "e", "r", "y">>>>
      [] OTHER -> <<>>

PatternBoost == 100

SourceKeywordBoost == 150

ContentKeywordBoost == 50

DebugErrorBoost == 200

TestSourceBoost == 150

\* a variant of the keyword loop that looks at the content only
RECURSIVE KeywordScoreContentOnly(_, _, _)
KeywordScoreContentOnly(keywords, source_lower, content_lower) ==
    IF keywords = <<>> THEN 0
    ELSE (IF Contains(content_lower, keywords[1]) THEN ContentKeywordBoost ELSE 0)
         + KeywordScoreContentOnly(Tail(keywords), source_lower, content_lower)

\* the keyword loop of _score_chunk
RECURSIVE KeywordScore(_, _, _)
KeywordScore(keywords, source_lower, content_lower) ==
    IF keywords = <<>> THEN 0
    ELSE (IF Contains(source_lower, keywords[1]) THEN SourceKeywordBoost
          ELSE IF Contains(content_lower, keywords[1]) THEN ContentKeywordBoost
          ELSE 0)
         + KeywordScore(Tail(keywords), source_lower, content_lower)

\* ContextPrioritizer._score_chunk
_score_chunk(chunk, task_type, keywords) ==
    Bind(Lower(chunk.source), LAMBDA source_lower :
        Bind(Lower(chunk.content), LAMBDA content_lower :
            LET patterns == TASK_PATTERNS(task_type)
            IN  PRIORITY_SCORES(chunk.priority)
                + (IF \E i \in 1..Len(patterns) : Contains(source_lower, patterns[i])
                   THEN PatternBoost ELSE 0)
                + KeywordScore(keywords, source_lower, content_lower)
                + (IF /\ task_type = "DEBUG"
                      /\ \/ Contains(content_lower, S_error)
                         \/ Contains(content_lower, S_exception)
                   THEN DebugErrorBoost ELSE 0)
                + (IF /\ task_type = "TEST"
                      /\ \/ Contains(source_lower, S_test)
                         \/ Contains(source_lower, S_spec)
                   THEN TestSourceBoost ELSE 0)))

\* a variant of the sort that puts a pair in front of the pairs of equal score
RECURSIVE InsertBeforeEqual(_, _)
InsertBeforeEqual(sorted, pair) ==
    IF sorted = <<>> THEN <<pair>>
    ELSE IF sorted[1][2] > pair[2]
         THEN <<sorted[1]>> \o InsertBeforeEqual(Tail(sorted), pair)
         ELSE <<pair>> \o sorted

\* scored_chunks.sort(key = score, reverse = True) on (chunk, score) pairs:
\* the sort is stable, so a pair goes behind every pair already placed whose
\* score is not lower
RECURSIVE InsertByScore(_, _)
InsertByScore(sorted, pair) ==
    IF sorted = <<>> THEN <<pair>>
    ELSE IF sorted[1][2] >= pair[2]
         THEN <<sorted[1]>> \o InsertByScore(Tail(sorted), pair)
         ELSE <<pair>> \o sorted

RECURSIVE SortFrom(_, _, _)
SortFrom(scored_chunks, i, sorted) ==
    IF i > Len(scored_chunks) THEN sorted
    ELSE Bind(InsertByScore(sorted, scored_chunks[i]), LAMBDA placed :
             SortFrom(scored_chunks, i + 1, placed))

\* ContextPrioritizer.prioritize
prioritize(chunks, task_type, keywords) ==
    Bind([i \in 1..Len(chunks) |->
             <<chunks[i], _score_chunk(chunks[i], task_type, keywords)>>],
         LAMBDA scored_chunks :
             Bind(SortFrom(scored_chunks, 1, <<>>), LAMBDA sorted :
                 [i \in 1..Len(sorted) |-> sorted[i][1]]))

(***************************************************************************)
(* ContextManager._extract_keywords                                        *)
(***************************************************************************)
\* stop_words of _extract_keywords
stop_words ==
    {<<"t", "h", "e">>, <<"a">>, <<"a", "n">>, <<"a", "n", "d">>, <<"o",
    "r">>, <<"b", "u", "t">>, <<"i", "n">>, <<"o", "n">>, <<"a", "t">>, <<"t",
    "o">>, <<"f", "o", "r">>, <<"o", "f">>, <<"w", "i", "t", "h">>, <<"b",
    "y">>, <<"f", "r", "o", "m">>, <<"a", "s">>, <<"i", "s">>, <<"w", "a",
    "s">>, <<"a", "r", "e">>, <<"b", "e">>, <<"b", "e", "e", "n">>, <<"b",
    "e", "i", "n", "g">>, <<"h", "a", "v", "e">>, <<"h", "a", "s">>, <<"h",
    "a", "d">>, <<"d", "o">>, <<"d", "o", "e", "s">>, <<"d", "i", "d">>,
    <<"w", "i", "l", "l">>, <<"w", "o", "u", "l", "d">>, <<"c", "o", "u", "l",
    "d">>, <<"s", "h", "o", "u", "l", "d">>, <<"m", "a", "y">>, <<"m", "i",
    "g", "h", "t">>, <<"m", "u", "s", "t">>, <<"s", "h", "a", "l", "l">>,
    <<"c", "a", "n">>, <<"n", "e", "e", "d">>, <<"t", "h", "i", "s">>, <<"t",
    "h", "a", "t">>, <<"t", "h", "e", "s", "e">>, <<"t", "h", "o", "s", "e">>,
    <<"i">>, <<"y", "o", "u">>, <<"h", "e">>, <<"s", "h", "e">>, <<"i", "t">>,
    <<"w", "e">>, <<"t", "h", "e", "y">>, <<"m", "y">>, <<"y", "o", "u",
    "r">>, <<"h", "i", "s">>, <<"h", "e", "r">>, <<"i", "t", "s">>, <<"o",
    "u", "r">>, <<"t", "h", "e", "i", "r">>, <<"w", "h", "a", "t">>, <<"w",
    "h", "i", "c", "h">>, <<"w", "h", "o">>, <<"w", "h", "o", "m">>, <<"w",
    "h", "e", "n">>, <<"w", "h", "e", "r", "e">>, <<"w", "h", "y">>, <<"h",
    "o", "w">>, <<"a", "l", "l">>, <<"e", "a", "c", "h">>, <<"e", "v", "e",
    "r", "y">>, <<"b", "o", "t", "h">>, <<"f", "e", "w">>, <<"m", "o", "r",
    "e">>, <<"m", "o", "s", "t">>, <<"s", "o", "m", "e">>, <<"a", "n", "y">>,
    <<"n", "o">>, <<"n", "o", "t">>, <<"o", "n", "l", "y">>, <<"o", "w",
    "n">>, <<"s", "a", "m", "e">>, <<"s", "o">>, <<"t", "h", "a", "n">>,
    <<"t", "o", "o">>, <<"v", "e", "r", "y">>, <<"j", "u", "s", "t">>, <<"a",
    "l", "s", "o">>, <<"n", "o", "w">>, <<"h", "e", "r", "e">>, <<"t", "h",
    "e", "r", "e">>, <<"t", "h", "e", "n">>, <<"o", "n", "c", "e">>, <<"p",
    "l", "e", "a", "s", "e">>, <<"a", "d", "d">>, <<"c", "r", "e", "a", "t",
    "e">>, <<"m", "a", "k", "e">>, <<"i", "m", "p", "l", "e", "m", "e", "n",
    "t">>, <<"w", "r", "i", "t", "e">>, <<"u", "p", "d", "a", "t", "e">>,
    <<"c", "h", "a", "n", "g", "e">>, <<"m", "o", "d", "i", "f", "y">>}

Letters ==
    {"a", "b", "c", "d", "e", "f", "g", "h", "i", "j", "k", "l", "m", "n", "o",
     "p", "q", "r", "s", "t", "u", "v", "w", "x", "y", "z"}

Digits == {"0", "1", "2", "3", "4", "5", "6", "7", "8", "9"}

\* \w of the regular expression, on lower-cased text
IsWordChar(c) == c \in Letters \cup Digits \cup {"_"}

\* [a-zA-Z0-9_-] on lower-cased text
IsTokenChar(c) == IsWordChar(c) \/ c = "-"

\* a position where \b[a-zA-Z] matches
IsWordStart(text, p) ==
    /\ text[p] \in Letters
    /\ p = 1 \/ ~IsWordChar(text[p - 1])

\* the end of the match of [a-zA-Z0-9_-]*\b that starts at p: the longest run
\* of token characters, given back up to a position where \b holds
MatchEnd(text, p) ==
    LET run == CHOOSE e \in p..Len(text) :
                   /\ \A k \in p..e : IsTokenChar(text[k])
                   /\ e = Len(text) \/ ~IsTokenChar(text[e + 1])
        ends == {k \in p..run :
                    /\ IsWordChar(text[k])
                    /\ k = Len(text) \/ ~IsWordChar(text[k + 1])}
    IN  CHOOSE k \in ends : \A j \in ends : j <= k

\* re.findall(r'\b[a-zA-Z][a-zA-Z0-9_-]*\b', text) from position p on
RECURSIVE FindWordsFrom(_, _)
FindWordsFrom(text, p) ==
    Bind({q \in p..Len(text) : IsWordStart(text, q)}, LAMBDA starts :
        IF starts = {} THEN <<>>
        ELSE Bind(CHOOSE q \in starts : \A r \in starts : q <= r, LAMBDA s :
                 Bind(MatchEnd(text, s), LAMBDA e :
                     <<SubSeq(text, s, e)>> \o FindWordsFrom(text, e + 1))))

\* keywords[:10]
MaxKeywords == 10

\* len(w) > 2
MinKeywordLength == 2

\* ContextManager._extract_keywords
_extract_keywords(request) ==
    Bind(Lower(request), LAMBDA lowered :
        Bind(FindWordsFrom(lowered, 1), LAMBDA words :
            Prefix(SelectSeq(words, LAMBDA w :
                                 w \notin stop_words /\ Len(w) > MinKeywordLength),
                   MaxKeywords)))

(***************************************************************************)
(* ContextManager.add_error_context                                        *)
(***************************************************************************)
\* the text of the error chunk
ErrorContent(error_message, stack_trace) ==
    IF stack_trace # None /\ stack_trace[1] # <<>>
    THEN error_message \o S_stack_trace \o stack_trace[1]
    ELSE error_message

\* the error chunk; n numbers the chunks this method has created
ErrorChunk(n, error_message, stack_trace) ==
    LET content == ErrorContent(error_message, stack_trace)
    IN  ContextChunk(<<0, n>>, content, S_error_context, "error", "CRITICAL",
                     count_tokens(content), <<>>)

\* a variant that keeps the old total
add_error_context_old_total(compressed, error_chunk) ==
    CompressedContext(<<error_chunk>> \o compressed.chunks, compressed.total_tokens,
                      compressed.compression_ratio, compressed.excluded_sources,
                      compressed.summary)

\* the CompressedContext that add_error_context returns
add_error_context(compressed, error_chunk) ==
    LET new_chunks == <<error_chunk>> \o compressed.chunks
        new_total == compressed.total_tokens + error_chunk.token_count
    IN  CompressedContext(new_chunks, new_total, compressed.compression_ratio,
                          compressed.excluded_sources, compressed.summary)

\* a variant that prepends to the argument's own list and returns the argument
AddErrorInPlace(objects, c, error_chunk) ==
    Append([objects EXCEPT ![c] = add_error_context(@, error_chunk)],
           add_error_context(objects[c], error_chunk))

\* the objects after add_error_context(objects[c], ...): the result is a new
\* object, the argument is read only
AddErrorObjects(objects, c, error_chunk) ==
    Append(objects, add_error_context(objects[c], error_chunk))

(***************************************************************************)
(* ContextCheckpoint                                                       *)
(***************************************************************************)
\* JSON null, and a JSON value that is present
JsonNull == [json |-> "null"]

JsonOf(x) == [json |-> "value", value |-> x]

\* ContextChunk.model_dump_json: the enum is written as its value
DumpChunk(chunk) ==
    [chunk_id |-> chunk.chunk_id,
     content |-> chunk.content,
     source |-> chunk.source,
     chunk_type |-> chunk.chunk_type,
     priority |-> PriorityValue(chunk.priority),
     token_count |-> chunk.token_count,
     metadata |-> chunk.metadata]

\* CompressedContext.model_dump_json
model_dump_json(context) ==
    [chunks |-> [i \in 1..Len(context.chunks) |-> DumpChunk(context.chunks[i])],
     total_tokens |-> context.total_tokens,
     compression_ratio |-> context.compression_ratio,
     excluded_sources |-> context.excluded_sources,
     summary |-> IF context.summary = None THEN JsonNull
                 ELSE JsonOf(context.summary[1])]

\* ContextPriority(value): the member with that value, if any
PriorityOfValue(v) == {p \in ContextPriority : PriorityValue(p) = v}

\* validation of one chunk object of the document
ValidChunkJson(j) ==
    /\ PriorityOfValue(j.priority) # {}
    /\ ValidChunk(j.content, j.chunk_type,
                  CHOOSE p \in PriorityOfValue(j.priority) : TRUE, j.token_count)

LoadChunk(j) ==
    ContextChunk(j.chunk_id, j.content, j.source, j.chunk_type,
                 CHOOSE p \in PriorityOfValue(j.priority) : TRUE,
                 j.token_count, j.metadata)

\* CompressedContext.model_validate_json: whether the document validates
ValidJson(doc) ==
    /\ \A i \in 1..Len(doc.chunks) : ValidChunkJson(doc.chunks[i])
    /\ ValidContext(doc.total_tokens, doc.compression_ratio)

\* CompressedContext.model_validate_json: the object of a valid document
model_validate_json(doc) ==
    CompressedContext([i \in 1..Len(doc.chunks) |-> LoadChunk(doc.chunks[i])],
                      doc.total_tokens, doc.compression_ratio,
                      doc.excluded_sources,
                      IF doc.summary = JsonNull THEN None
                      ELSE Some(doc.summary.value))

\* a variant that writes every checkpoint to one file
save_single_file(files, task_id, context) ==
    [t \in DOMAIN files |-> Some(model_dump_json(context))]

\* the checkpoint directory after save(task_id, context)
save(files, task_id, context) ==
    [files EXCEPT ![task_id] = Some(model_dump_json(context))]

\* load(task_id): whether it raises, and the object or None it returns
load(files, task_id) ==
    IF files[task_id] = None THEN [raised |-> FALSE, value |-> None]
    ELSE IF ~ValidJson(files[task_id][1]) THEN [raised |-> TRUE, value |-> None]
    ELSE [raised |-> FALSE, value |-> Some(model_validate_json(files[task_id][1]))]

\* a variant that unlinks without looking and reports success
delete_unchecked(files, task_id) ==
    [files |-> [files EXCEPT ![task_id] = None], value |-> TRUE]

\* delete(task_id): the directory after it, and what it returns
delete(files, task_id) ==
    IF files[task_id] # None
    THEN [files |-> [files EXCEPT ![task_id] = None], value |-> TRUE]
    ELSE [files |-> files, value |-> FALSE]

(***************************************************************************)
(* tool_factory.py: the texts of the sample calls                          *)
(***************************************************************************)
\* the names of the sample file system of the tools
N_other == <<"o", "t", "h", "e", "r">>

N_notes_txt == <<"n", "o", "t", "e", "s", ".", "t", "x", "t">>

N_secret_txt == <<"s", "e", "c", "r", "e", "t", ".", "t", "x", "t">>

N_etc == <<"e", "t", "c">>

N_passwd == <<"p", "a", "s", "s", "w", "d">>

N_out == <<"o", "u", "t">>

N_new_txt == <<"n", "e", "w", ".", "t", "x", "t">>

N_dot == <<".">>

N_dotdot == <<".", ".">>

\* glob patterns
G_all == <<"*">>

G_py == <<"*", ".", "p", "y">>

\* file contents and the text write_file is given
L_secret_key == <<"a", "p", "i", " ", "k", "e", "y">>

L_written == <<"n", "e", "w", " ", "t", "e", "x", "t">>

\* search patterns: a word, and a pattern re.compile rejects
S_key == <<"k", "e", "y">>

S_open_paren == <<"(">>

\* the commands of the sample calls
Cmd_ls == <<"l", "s">>

Cmd_rm_root ==
    <<"r", "m", " ", "-", "r", "f", " ", "/", " ", "-", "-", "n",
    "o", "-", "p", "r", "e", "s", "e", "r", "v", "e", "-", "r", "o", "o",
    "t">>

Cmd_mkfs ==
    <<"s", "u", "d", "o", " ", "m", "k", "f", "s", ".", "e", "x", "t",
    "4", " ", "/", "d", "e", "v", "/", "s", "d", "b", "1">>

Cmd_sleep == <<"s", "l", "e", "e", "p", " ", "1", "0", "0">>

\* the dangerous_patterns of run_command
DP_rm_root == <<"r", "m", " ", "-", "r", "f", " ", "/">>

DP_rm_home == <<"r", "m", " ", "-", "r", "f", " ", "~">>

DP_mkfs == <<"m", "k", "f", "s">>

DP_dd == <<"d", "d", " ", "i", "f", "=">>

DP_fork_bomb == <<":", "(", ")", "{", ":", "|", ":", "&", "}", ";", ":">>

DP_chmod ==
    <<"c", "h", "m", "o", "d", " ", "-", "R", " ", "7", "7", "7",
    " ", "/">>

DP_dev_sd == <<">", " ", "/", "d", "e", "v", "/", "s", "d">>


(***************************************************************************)
(* tool_factory.py: paths and the file system the built-in tools work on   *)
(***************************************************************************)
\* a path string: whether it starts at the root, and its components
RelPath(parts) == [abs |-> FALSE, parts |-> parts]

AbsPath(parts) == [abs |-> TRUE, parts |-> parts]

\* pathlib `workspace / path` for an absolute workspace, as the components
\* from the root: an absolute right operand replaces the left one
PathJoin(workspace_root, path) ==
    IF path.abs THEN path.parts ELSE workspace_root \o path.parts

\* Path.resolve() on a file system without symbolic links: "." is dropped
\* and ".." removes the component before it (the root is its own parent)
RECURSIVE ResolveFrom(_, _, _)
ResolveFrom(parts, i, acc) ==
    IF i > Len(parts) THEN acc
    ELSE ResolveFrom(parts, i + 1,
             IF parts[i] = N_dot THEN acc
             ELSE IF parts[i] = N_dotdot
                  THEN IF acc = <<>> THEN <<>> ELSE SubSeq(acc, 1, Len(acc) - 1)
                  ELSE Append(acc, parts[i]))

resolve(parts) == ResolveFrom(parts, 1, <<>>)

\* path.relative_to(base) compares components, without resolving: it raises
\* ValueError unless base is a prefix of path
relative_to_raises(path, base) == ~StartsWith(path, base)

relative_to(path, base) == Suffix(path, Len(base))

\* the file system: the text of each file and the directories, by resolved
\* path
exists(fs, p) == p \in DOMAIN fs.files \/ p \in fs.dirs

is_file(fs, p) == p \in DOMAIN fs.files

is_dir(fs, p) == p \in fs.dirs

\* fnmatch of a name against a pattern "*" + suffix
fnmatch(name, pattern) ==
    /\ Len(pattern) >= 1
    /\ pattern[1] = "*"
    /\ EndsWith(name, Suffix(pattern, 1))

\* dir.glob(pattern): the entries of dir whose name matches
glob(fs, dir, pattern) ==
    {p \in DOMAIN fs.files \cup fs.dirs :
        /\ Len(p) = Len(dir) + 1
        /\ StartsWith(p, dir)
        /\ fnmatch(p[Len(p)], pattern)}

\* dir.rglob(pattern): the entries below dir whose name matches
rglob(fs, dir, pattern) ==
    {p \in DOMAIN fs.files \cup fs.dirs :
        /\ Len(p) > Len(dir)
        /\ StartsWith(p, dir)
        /\ fnmatch(p[Len(p)], pattern)}

\* the directories above a path, the root included
Parents(p) == {SubSeq(p, 1, k) : k \in 0..(Len(p) - 1)}

\* path.parent.mkdir(parents=True, exist_ok=True) then path.write_text(text),
\* or the write alone: the file system afterwards and whether an OSError was
\* raised (a file where a directory is needed, a missing parent, a directory
\* at the path)
WriteText(fs, p, text, create_dirs) ==
    IF p = <<>> THEN [fs |-> fs, failed |-> TRUE]
    ELSE IF create_dirs /\ \E a \in Parents(p) : is_file(fs, a)
    THEN [fs |-> fs, failed |-> TRUE]
    ELSE Bind(IF create_dirs THEN [fs EXCEPT !.dirs = @ \cup Parents(p)] ELSE fs,
              LAMBDA made :
                  IF \/ SubSeq(p, 1, Len(p) - 1) \notin made.dirs
                     \/ is_dir(made, p)
                  THEN [fs |-> made, failed |-> TRUE]
                  ELSE [fs |-> [made EXCEPT !.files =
                                   [q \in DOMAIN made.files \cup {p} |->
                                       IF q = p THEN text ELSE made.files[q]]],
                        failed |-> FALSE])

(***************************************************************************)
(* tool_factory.py: parameter models, tool definitions, registry           *)
(***************************************************************************)
\* a field of a parameter model: its annotation, whether it is required,
\* and its default
ModelField(name, type, required, default) ==
    [name |-> name, type |-> type, required |-> required, default |-> default]

ReadFileParams ==
    <<ModelField("path", "str", TRUE, None),
      ModelField("encoding", "str", FALSE, "utf-8")>>

WriteFileParams ==
    <<ModelField("path", "str", TRUE, None),
      ModelField("content", "str", TRUE, None),
      ModelField("create_dirs", "bool", FALSE, TRUE)>>

ListDirParams ==
    <<ModelField("path", "str", FALSE, RelPath(<<N_dot>>)),
      ModelField("recursive", "bool", FALSE, FALSE),
      ModelField("pattern", "str", FALSE, G_all)>>

AnalyzeCodeParams ==
    <<ModelField("path", "str", TRUE, None),
      ModelField("analysis_type", "str", FALSE, "structure")>>

SearchCodeParams ==
    <<ModelField("pattern", "str", TRUE, None),
      ModelField("path", "str", FALSE, RelPath(<<N_dot>>)),
      ModelField("file_pattern", "str", FALSE, G_all),
      ModelField("case_sensitive", "bool", FALSE, FALSE)>>

DefaultTimeout == 30

RunCommandParams ==
    <<ModelField("command", "str", TRUE, None),
      ModelField("timeout", "int", FALSE, DefaultTimeout),
      ModelField("cwd", "str", FALSE, RelPath(<<N_dot>>))>>

\* the parameter model of a tool written outside this module
DataParams == <<ModelField("data", "str", TRUE, None)>>

FieldNames(model) == {model[i].name : i \in DOMAIN model}

RequiredNames(model) ==
    {model[i].name : i \in {j \in DOMAIN model : model[j].required}}

FieldDefault(model, name) ==
    model[CHOOSE i \in DOMAIN model : model[i].name = name].default

\* model.model_validate(params) raises unless every required field is given
\* (the sample calls give values of the declared types)
model_validate_raises(model, params) ==
    ~(RequiredNames(model) \subseteq DOMAIN params)

\* the fields of the validated instance: the values given for the fields of
\* the model, the defaults for the others
model_validate(model, params) ==
    [n \in FieldNames(model) |->
        IF n \in DOMAIN params THEN params[n] ELSE FieldDefault(model, n)]

\* what a handler is called with: a dict (validated.model_dump() is one), or
\* an instance of a parameter model
DictParams(fields) == [kind |-> "dict", fields |-> fields]

ModelParams(fields) == [kind |-> "model", fields |-> fields]

ToolParameter(name, param_type, required) ==
    [name |-> name, param_type |-> param_type, required |-> required]

ToolDefinition(name, parameters, task_types) ==
    [name |-> name, parameters |-> parameters, task_types |-> task_types]

\* the names the JSON schema of a definition requires
SchemaRequired(definition) ==
    {definition.parameters[i].name :
        i \in {j \in DOMAIN definition.parameters :
                  definition.parameters[j].required}}

\* _model_to_parameters: one ToolParameter for each field of the model
JsonType(annotation) ==
    CASE annotation = "int" -> "integer"
      [] annotation = "float" -> "number"
      [] annotation = "bool" -> "boolean"
      [] annotation = "list" -> "array"
      [] annotation = "dict" -> "object"
      [] OTHER -> "string"

_model_to_parameters(model) ==
    [i \in DOMAIN model |->
        ToolParameter(model[i].name, JsonType(model[i].type), model[i].required)]

\* a handler function: its body, the workspace its closure holds, and the
\* annotation of its first parameter as inspect.signature reports it: the
\* class ("class"), the text of the annotation ("string": the function was
\* defined under `from __future__ import annotations`) or none ("empty")
Func(fn, workspace_root, kind, model) ==
    [fn |-> fn, workspace |-> workspace_root,
     annotation |-> [kind |-> kind, model |-> model]]

_extract_param_model(func) ==
    IF func.annotation.kind = "class" THEN Some(func.annotation.model) ELSE None

ToolEntry(definition, handler, param_model) ==
    [definition |-> definition, handler |-> handler, param_model |-> param_model]

\* ToolRegistry.register: the entry is stored under the name
register(tools, name, definition, handler, param_model) ==
    [n \in DOMAIN tools \cup {name} |->
        IF n = name THEN ToolEntry(definition, handler, param_model)
        ELSE tools[n]]

\* a list holds a value
InList(x, list) == \E i \in DOMAIN list : list[i] = x

\* ToolRegistry.get_for_task without the tools of every task
get_for_task_restricted(tools, task_type) ==
    {tools[n] : n \in {k \in DOMAIN tools :
        InList(task_type, tools[k].definition.task_types)}}

\* ToolRegistry.get_for_task: the entries of the tools applicable to a task
\* type, those of every task (no task type listed) included
get_for_task(tools, task_type) ==
    {tools[n] : n \in {k \in DOMAIN tools :
        \/ InList(task_type, tools[k].definition.task_types)
        \/ tools[k].definition.task_types = <<>>}}

\* the decorator register_tool(name, ...)(func)
register_tool(tools, name, task_types, func) ==
    Bind(_extract_param_model(func), LAMBDA param_model :
        register(tools, name,
                 ToolDefinition(name,
                     IF param_model # None
                     THEN _model_to_parameters(param_model[1]) ELSE <<>>,
                     task_types),
                 func, param_model))

\* the built-in handlers are defined in tool_factory.py, which postpones the
\* evaluation of annotations
BuiltinFunc(fn, workspace_root, model) == Func(fn, workspace_root, "string", model)

_register_file_tools(tools, workspace_root) ==
    register_tool(
        register_tool(
            register_tool(tools, "read_file",
                <<"IMPLEMENT", "ANALYZE", "REFACTOR", "DEBUG", "TEST">>,
                BuiltinFunc("read_file", workspace_root, ReadFileParams)),
            "write_file", <<"IMPLEMENT", "REFACTOR", "GENERATE", "SCAFFOLD">>,
            BuiltinFunc("write_file", workspace_root, WriteFileParams)),
        "list_directory", <<"IMPLEMENT", "ANALYZE", "SCAFFOLD">>,
        BuiltinFunc("list_directory", workspace_root, ListDirParams))

_register_analysis_tools(tools, workspace_root) ==
    register_tool(
        register_tool(tools, "analyze_code",
            <<"ANALYZE", "REFACTOR", "OPTIMIZE">>,
            BuiltinFunc("analyze_code", workspace_root, AnalyzeCodeParams)),
        "search_code", <<"ANALYZE", "DEBUG", "REFACTOR">>,
        BuiltinFunc("search_code", workspace_root, SearchCodeParams))

_register_system_tools(tools, workspace_root) ==
    register_tool(tools, "run_command", <<"TEST", "DEPLOY", "AUTOMATE">>,
        BuiltinFunc("run_command", workspace_root, RunCommandParams))

\* _register_builtin_tools: the registry and the flag afterwards
_register_builtin_tools(tools, registered, workspace_root) ==
    IF registered THEN [tools |-> tools, registered |-> registered]
    ELSE [tools |->
              _register_system_tools(
                  _register_analysis_tools(
                      _register_file_tools(tools, workspace_root),
                      workspace_root),
                  workspace_root),
          registered |-> TRUE]

\* dict.get(key, default)
Get(d, key, default) == IF key \in DOMAIN d THEN d[key] ELSE default

\* ToolFactory.create_tool: the registry afterwards
create_tool(tools, name, parameters, handler, task_types) ==
    register(tools, name,
             ToolDefinition(name,
                 [i \in DOMAIN parameters |->
                     ToolParameter(parameters[i].name,
                                   Get(parameters[i], "type", "string"),
                                   Get(parameters[i], "required", FALSE))],
                 task_types),
             handler, None)

(***************************************************************************)
(* tool_factory.py: the handlers of the built-in tools                     *)
(***************************************************************************)
\* the dict a handler returns: {"error": message}, or a success with its data
ErrorResult(message) == [success |-> FALSE, error |-> message, data |-> {}]

SuccessResult(data) == [success |-> TRUE, error |-> "", data |-> data]

NoValue == [success |-> FALSE, error |-> "", data |-> {}]

AccessDenied == "Access denied: path outside workspace"

\* what a call did: the exception it raised or the value it returned, the
\* file system afterwards, the files it read, the subprocess it left running,
\* and whether the handler was called
Returned(value, fs, reads) ==
    [raised |-> "", message |-> "", value |-> value, fs |-> fs,
     reads |-> reads, process |-> None, invoked |-> TRUE]

Raises(exception, fs) ==
    [raised |-> exception, message |-> "", value |-> NoValue, fs |-> fs,
     reads |-> {}, process |-> None, invoked |-> TRUE]

NotInvoked(exception, message, fs) ==
    [raised |-> exception, message |-> message, value |-> NoValue, fs |-> fs,
     reads |-> {}, process |-> None, invoked |-> FALSE]

\* the handler is suspended in communicate() on the subprocess it started
Communicating(fs, process) ==
    [raised |-> "", message |-> "", value |-> NoValue, fs |-> fs,
     reads |-> {}, process |-> Some(process), invoked |-> TRUE]

\* params.path and the like raise AttributeError on a dict
read_file(workspace_root, params, fs) ==
    IF params.kind # "model" THEN Raises("AttributeError", fs)
    ELSE Bind(resolve(PathJoin(workspace_root, params.fields.path)),
         LAMBDA file_path :
             IF relative_to_raises(file_path, resolve(workspace_root))
             THEN Returned(ErrorResult(AccessDenied), fs, {})
             ELSE IF ~exists(fs, file_path)
             THEN Returned(ErrorResult("File not found"), fs, {})
             ELSE IF ~is_file(fs, file_path)
             THEN Returned(ErrorResult("Not a file"), fs, {})
             ELSE Returned(SuccessResult({fs.files[file_path]}), fs, {file_path}))

write_file(workspace_root, params, fs) ==
    IF params.kind # "model" THEN Raises("AttributeError", fs)
    ELSE Bind(resolve(PathJoin(workspace_root, params.fields.path)),
         LAMBDA file_path :
             IF relative_to_raises(file_path, resolve(workspace_root))
             THEN Returned(ErrorResult(AccessDenied), fs, {})
             ELSE Bind(WriteText(fs, file_path, params.fields.content,
                                 params.fields.create_dirs),
                  LAMBDA written :
                      IF written.failed
                      THEN Returned(ErrorResult("Failed to write file"),
                                    written.fs, {})
                      ELSE Returned(SuccessResult({}), written.fs, {})))

list_directory(workspace_root, params, fs) ==
    IF params.kind # "model" THEN Raises("AttributeError", fs)
    ELSE Bind(resolve(PathJoin(workspace_root, params.fields.path)),
         LAMBDA dir_path :
             IF relative_to_raises(dir_path, resolve(workspace_root))
             THEN Returned(ErrorResult(AccessDenied), fs, {})
             ELSE IF ~exists(fs, dir_path)
             THEN Returned(ErrorResult("Directory not found"), fs, {})
             ELSE IF ~is_dir(fs, dir_path)
             THEN Returned(ErrorResult("Not a directory"), fs, {})
             ELSE Returned(
                      SuccessResult(
                          IF params.fields.recursive
                          THEN {relative_to(p, dir_path) :
                                   p \in rglob(fs, dir_path, params.fields.pattern)}
                          ELSE {<<p[Len(p)]>> :
                                   p \in glob(fs, dir_path, params.fields.pattern)}),
                      fs, {}))

\* the paths analyze_code and search_code go through: the path itself when
\* the operating system finds a file there, else what rglob finds below it
\* (the sample trees stay below the limits of 20 and 50 files)
FilesAt(fs, path, pattern) ==
    IF is_file(fs, resolve(path)) THEN {path}
    ELSE {path \o relative_to(p, resolve(path)) :
             p \in rglob(fs, resolve(path), pattern)}

\* analyze_code: the path is joined to the workspace and used as it is; each
\* file is read, then named relative to the workspace (ValueError makes the
\* entry of the file an error entry)
analyze_code(workspace_root, params, fs) ==
    IF params.kind # "model" THEN Raises("AttributeError", fs)
    ELSE Bind(PathJoin(workspace_root, params.fields.path),
         LAMBDA file_path :
             IF ~exists(fs, resolve(file_path))
             THEN Returned(ErrorResult("Path not found"), fs, {})
             ELSE Bind({f \in FilesAt(fs, file_path, G_py) :
                           is_file(fs, resolve(f))},
                  LAMBDA read :
                      Returned(
                          SuccessResult(
                              {relative_to(f, workspace_root) :
                                  f \in {g \in read :
                                      ~relative_to_raises(g, workspace_root)}}),
                          fs, {resolve(f) : f \in read})))

\* of the sample patterns, the lone parenthesis is the one re.compile rejects;
\* the others are words, which match a line that contains them
re_compile_raises(pattern) == pattern = S_open_paren

HasMatch(content, pattern, case_sensitive) ==
    \E i \in DOMAIN SplitLines(content) :
        IF case_sensitive THEN Contains(SplitLines(content)[i], pattern)
        ELSE Contains(Lower(SplitLines(content)[i]), Lower(pattern))

\* search_code: the files with a matching line, named relative to the
\* workspace (a file for which relative_to raises is passed over); every file
\* found is read
search_code(workspace_root, params, fs) ==
    IF params.kind # "model" THEN Raises("AttributeError", fs)
    ELSE Bind(PathJoin(workspace_root, params.fields.path),
         LAMBDA search_path :
             IF ~exists(fs, resolve(search_path))
             THEN Returned(ErrorResult("Path not found"), fs, {})
             ELSE IF re_compile_raises(params.fields.pattern)
             THEN Returned(ErrorResult("Invalid regex pattern"), fs, {})
             ELSE Bind({f \in FilesAt(fs, search_path, params.fields.file_pattern) :
                           is_file(fs, resolve(f))},
                  LAMBDA read :
                      Returned(
                          SuccessResult(
                              {relative_to(f, workspace_root) :
                                  f \in {g \in read :
                                      /\ HasMatch(fs.files[resolve(g)],
                                                  params.fields.pattern,
                                                  params.fields.case_sensitive)
                                      /\ ~relative_to_raises(g, workspace_root)}}),
                          fs, {resolve(f) : f \in read})))

dangerous_patterns ==
    <<DP_rm_root, DP_rm_home, DP_mkfs, DP_dd, DP_fork_bomb, DP_chmod, DP_dev_sd>>

\* a subprocess: its command, the timeout the call was given, the seconds
\* since it started, the seconds it runs, and its return code
Process(command, timeout, duration, returncode) ==
    [command |-> command, timeout |-> timeout, elapsed |-> 0,
     duration |-> duration, returncode |-> returncode]

\* run_command up to `await result.communicate()`. wait_for puts the timeout
\* on create_subprocess_shell, the creation of the subprocess: spawn.slow says
\* that the creation itself outlasts the timeout
run_command(workspace_root, params, fs, spawn) ==
    IF params.kind # "model" THEN Raises("AttributeError", fs)
    ELSE Bind(resolve(PathJoin(workspace_root, params.fields.cwd)),
         LAMBDA cwd :
             IF relative_to_raises(cwd, resolve(workspace_root))
             THEN Returned(
                      ErrorResult("Access denied: working directory outside workspace"),
                      fs, {})
             ELSE IF \E i \in DOMAIN dangerous_patterns :
                         Contains(params.fields.command, dangerous_patterns[i])
             THEN Returned(ErrorResult("Blocked dangerous command pattern"), fs, {})
             ELSE IF spawn.slow
             THEN Returned(ErrorResult("Command timed out"), fs, {})
             ELSE IF ~is_dir(fs, cwd)
             THEN Returned(ErrorResult("Command execution failed"), fs, {})
             ELSE Communicating(fs,
                      Process(params.fields.command, params.fields.timeout,
                              spawn.duration, spawn.returncode)))

\* run_command from the return of communicate() on
communicate(process) ==
    [success |-> process.returncode = 0, error |-> "", data |-> {}]

\* a handler written by the caller, which takes a dict: params["data"]
custom_handler(params, fs) ==
    IF params.kind # "dict" THEN Raises("TypeError", fs)
    ELSE IF "data" \notin DOMAIN params.fields THEN Raises("KeyError", fs)
    ELSE Returned(SuccessResult({params.fields.data}), fs, {})

\* handler(params)
Call(handler, params, fs, spawn) ==
    CASE handler.fn = "read_file" -> read_file(handler.workspace, params, fs)
      [] handler.fn = "write_file" -> write_file(handler.workspace, params, fs)
      [] handler.fn = "list_directory" ->
             list_directory(handler.workspace, params, fs)
      [] handler.fn = "analyze_code" -> analyze_code(handler.workspace, params, fs)
      [] handler.fn = "search_code" -> search_code(handler.workspace, params, fs)
      [] handler.fn = "run_command" ->
             run_command(handler.workspace, params, fs, spawn)
      [] OTHER -> custom_handler(params, fs)

\* ToolEntry.execute: validation when the entry has a parameter model, then
\* the handler on the dict; what the handler raises is raised again
execute(entry, params, fs, spawn) ==
    IF entry.param_model = None
    THEN Call(entry.handler, DictParams(params), fs, spawn)
    ELSE IF model_validate_raises(entry.param_model[1], params)
    THEN NotInvoked("ValueError", "Parameter validation failed", fs)
    ELSE Call(entry.handler,
              DictParams(model_validate(entry.param_model[1], params)),
              fs, spawn)

\* execute_tool without the lookup check: an unknown name runs the first tool
execute_tool_first(tools, name, params, fs, spawn) ==
    execute(IF name \in DOMAIN tools THEN tools[name]
            ELSE tools[CHOOSE n \in DOMAIN tools : TRUE],
            params, fs, spawn)

\* ToolFactory.execute_tool
execute_tool(tools, name, params, fs, spawn) ==
    IF name \notin DOMAIN tools
    THEN NotInvoked("ValueError", "Tool not found", fs)
    ELSE execute(tools[name], params, fs, spawn)

(***************************************************************************)
(* The state machine                                                       *)
(***************************************************************************)
VARIABLES
    workspace,    \* which project tree the gatherer walks
    request,      \* focus_files, include_structure, include_deps, task_type, keywords
    budget,       \* the TokenBudget of the task
    pc,           \* position in the pipeline gather_all, prioritize, compress
    tasks,        \* the gathering passes of gather_all: state and result
    prioritized,  \* the priority-ordered chunk list handed to compress
    objects,      \* the CompressedContext objects, in order of creation
    files,        \* the checkpoint directory: task_id -> document or None
    stored,       \* history: task_id -> the objects saved since it was last absent
    calls,        \* number of checkpoint calls made
    ret,          \* the last call and what it returned
    _tools,       \* ToolRegistry._tools: tool name -> ToolEntry
    _builtins_registered,  \* the module flag of _register_builtin_tools
    factories,    \* the workspace of each ToolFactory constructed
    fs,           \* the file system the tools work on
    running,      \* the subprocess run_command awaits, or None
    last,         \* the last tool call and what it did
    session_info, \* Orchestrator.session_info: None, or the SessionInfo of the run
    epc,          \* where Orchestrator.execute stands
    client,       \* the fields of the CopilotClient of the orchestrator
    sdk,          \* the SDK clients started so far, and the session of each
    stream,       \* the response stream of the message sent last
    executions,   \* the tool handler invocations of the current execute call
    runs          \* the number of execute calls so far

ctxvars ==
    <<workspace, request, budget, pc, tasks, prioritized, objects, files,
      stored, calls, ret>>

toolvars == <<_tools, _builtins_registered, factories, fs, running, last>>

orchvars == <<session_info, epc, client, sdk, stream, executions, runs>>

vars == <<ctxvars, toolvars, orchvars>>

\* the project trees: the files in the order rglob yields them, and the
\* operating-system errors the passes meet
Workspaces ==
    <<[walk |-> <<F_app, F_notes, F_cfg>>, faults |-> {}],
      [walk |-> <<F_cfg, F_yaml, F_tiny, F_req>>, faults |-> {}],
      [walk |-> <<F_yaml, F_tiny, F_notes, F_ignored, F_big, F_png, F_empty, F_secret>>,
       faults |-> {}],
      [walk |-> <<F_notes, F_req, F_tiny>>, faults |-> {"iterdir"}],
      [walk |-> <<F_app, F_req>>, faults |-> {"rglob"}],
      [walk |-> <<F_app>>, faults |-> {}],
      [walk |-> <<F_plain, F_misc, F_login, F_handler>>, faults |-> {}]>>

Walk == Workspaces[workspace].walk

Faults == Workspaces[workspace].faults

\* prepare_context asks gather_all for structure and dependencies; the other
\* requests are calls of gather_all, prioritize and compress by a client
Requests ==
    {[focus_files |-> <<>>, include_structure |-> TRUE, include_deps |-> TRUE,
      task_type |-> "IMPLEMENT", keywords |-> <<>>],
     [focus_files |-> <<N_app_py>>, include_structure |-> FALSE, include_deps |-> FALSE,
      task_type |-> "DEBUG", keywords |-> <<K_login, K_handler>>],
     [focus_files |-> <<>>, include_structure |-> FALSE, include_deps |-> TRUE,
      task_type |-> "TEST", keywords |-> <<K_cfg>>],
     [focus_files |-> <<>>, include_structure |-> TRUE, include_deps |-> TRUE,
      task_type |-> "DEBUG", keywords |-> _extract_keywords(R_login)]}

TokenBudget(input_max, reserved) ==
    [input_max |-> input_max, output_max |-> 4000, input_used |-> 0,
     output_used |-> 0, reserved |-> reserved]

Reserved == {0, 886, 880, 900, 930, 940, 960, 1200}

Budgets == {TokenBudget(InputMaxFloor, r) : r \in Reserved}

TaskIds == {"t1", "t2"}

ErrorMessages == {<<>>, T_boom}

StackTraces == {None, Some(T_trace)}

Passes == {"files", "structure", "deps"}

(***************************************************************************)
(* The tool layer: factories, registrations and tool calls                 *)
(***************************************************************************)
MaxFactories == 2

ShortTimeout == 1

LongRun == 2

WorkspaceRoots == {<<N_ws>>, <<N_other>>}

\* the names calls are made with: the built-in tools, a tool of the caller,
\* and a name nothing registers
BuiltinNames ==
    {"read_file", "write_file", "list_directory", "analyze_code",
     "search_code", "run_command"}

ToolNames == BuiltinNames \cup {"custom_tool", "no_such_tool"}

\* the names the caller registers tools under
RegisteredNames == {"custom_tool", "read_file"}

\* the params dicts of the sample calls of each tool
SampleParams(name) ==
    CASE name = "read_file" ->
             {<<>>,
              [path |-> RelPath(<<N_notes_txt>>)],
              [path |-> RelPath(<<N_dotdot, N_secret_txt>>)],
              [path |-> AbsPath(<<N_etc, N_passwd>>)],
              [path |-> RelPath(<<N_dotdot, N_ws, N_notes_txt>>)]}
      [] name = "write_file" ->
             {[path |-> RelPath(<<N_out, N_new_txt>>)],
              [path |-> RelPath(<<N_out, N_new_txt>>), content |-> L_written],
              [path |-> RelPath(<<N_dotdot, N_secret_txt>>),
               content |-> L_written]}
      [] name = "list_directory" ->
             {<<>>, [recursive |-> TRUE], [path |-> RelPath(<<N_dotdot>>)]}
      [] name = "analyze_code" ->
             {<<>>,
              [path |-> RelPath(<<N_app_py>>)],
              [path |-> RelPath(<<N_dotdot, N_secret_txt>>)],
              [path |-> AbsPath(<<N_etc, N_passwd>>)]}
      [] name = "search_code" ->
             {<<>>,
              [pattern |-> S_key],
              [pattern |-> S_key, path |-> RelPath(<<N_dotdot>>)],
              [pattern |-> S_open_paren]}
      [] name = "run_command" ->
             {<<>>,
              [command |-> Cmd_ls],
              [command |-> Cmd_rm_root],
              [command |-> Cmd_mkfs, cwd |-> RelPath(<<N_dotdot>>)],
              [command |-> Cmd_sleep, timeout |-> ShortTimeout]}
      [] OTHER -> {<<>>, [data |-> L_plain]}

\* the parameter list create_tool is given
SampleParameters == {<<[name |-> "data", required |-> TRUE]>>}

\* how the subprocess of a call behaves, for the tool that starts one
NoSpawn == [slow |-> FALSE, duration |-> 0, returncode |-> 0]

Spawns(name) ==
    IF name # "run_command" THEN {NoSpawn}
    ELSE
    {[slow |-> TRUE, duration |-> 0, returncode |-> 0],
     [slow |-> FALSE, duration |-> 0, returncode |-> 0],
     [slow |-> FALSE, duration |-> LongRun, returncode |-> 1]}

SampleFs ==
    [files |-> (<<N_ws, N_notes_txt>> :> L_plain)
                   @@ (<<N_ws, N_app_py>> :> L_import_os)
                   @@ (<<N_other, N_app_py>> :> L_code)
                   @@ (<<N_secret_txt>> :> L_secret_key)
                   @@ (<<N_etc, N_passwd>> :> L_secret_key),
     dirs |-> {<<>>, <<N_ws>>, <<N_other>>, <<N_etc>>}]

NoTools == [n \in {} |-> None]

NoCall ==
    [op |-> "none", name |-> "", tool |-> None, params |-> DictParams(<<>>),
     raised |-> "",
     message |-> "", value |-> NoValue, reads |-> {}, invoked |-> FALSE,
     pending |-> FALSE]

\* the record of a call and of what it did: how it was made, the name, the
\* entry the registry held under it, the params, and the outcome
CallRecord(op, name, tool, params, done) ==
    [op |-> op, name |-> name, tool |-> tool, params |-> params,
     raised |-> done.raised,
     message |-> done.message, value |-> done.value, reads |-> done.reads,
     invoked |-> done.invoked, pending |-> done.process # None]

\* the task types asked for, and the task_types a created tool is given
TaskTypes == {"IMPLEMENT", "MIGRATE"}

SampleTaskTypes == {<<"MIGRATE">>}

\* the module is loaded: an empty registry, no factory, no call
ToolInit ==
    /\ _tools = NoTools
    /\ _builtins_registered = FALSE
    /\ factories = <<>>
    /\ fs = SampleFs
    /\ running = None
    /\ last = NoCall

\* a response stream: the events the SDK delivered to on_event that stand for
\* a chunk, the put_nowait callbacks scheduled on the loop and not yet run,
\* event_queue, done_event, the chunks of a mock response not yet yielded,
\* and the chunks yielded so far
NoStream ==
    [mode |-> "none", sent |-> 0, delivered |-> <<>>, scheduled |-> <<>>,
     event_queue |-> <<>>, done_event |-> FALSE, terminal |-> FALSE,
     pending |-> <<>>, yielded |-> <<>>, finished |-> FALSE]

\* no orchestrator has been constructed
OrchestratorInit ==
    /\ session_info = None
    /\ epc = "none"
    /\ client = None
    /\ sdk = <<>>
    /\ stream = NoStream
    /\ executions = <<>>
    /\ runs = 0

NoReturn ==
    [op |-> "none", task |-> "", arg |-> 0, obj |-> 0, flag |-> FALSE,
     raised |-> FALSE, value |-> None]

Init ==
    /\ workspace \in DOMAIN Workspaces
    /\ request \in Requests
    /\ budget \in Budgets
    /\ ValidBudget(budget)
    /\ pc = "start"
    /\ tasks = [p \in Passes |-> [state |-> "absent", result |-> <<>>]]
    /\ prioritized = <<>>
    /\ objects = <<>>
    /\ files = [t \in TaskIds |-> None]
    /\ stored = [t \in TaskIds |-> <<>>]
    /\ calls = 0
    /\ ret = NoReturn
    /\ ToolInit
    /\ OrchestratorInit

\* gather_all up to asyncio.gather: the passes asked for become tasks
GatherStart ==
    /\ pc = "start"
    /\ pc' = "gathering"
    /\ tasks' = [p \in Passes |->
                    [state |-> IF \/ p = "files"
                                  \/ p = "structure" /\ request.include_structure
                                  \/ p = "deps" /\ request.include_deps
                               THEN "pending" ELSE "absent",
                     result |-> <<>>]]
    /\ UNCHANGED <<toolvars, orchvars>>
    /\ UNCHANGED <<workspace, request, budget, prioritized, objects, files,
                   stored, calls, ret>>

\* the task of _gather_files: an OSError of rglob is not caught in it
GatherFiles ==
    /\ pc = "gathering"
    /\ tasks["files"].state = "pending"
    /\ tasks' = [tasks EXCEPT !["files"] =
                    IF "rglob" \in Faults
                    THEN [state |-> "failed", result |-> <<>>]
                    ELSE [state |-> "done",
                          result |-> _gather_files(Walk, request.focus_files)]]
    /\ UNCHANGED <<toolvars, orchvars>>
    /\ UNCHANGED <<workspace, request, budget, pc, prioritized, objects, files,
                   stored, calls, ret>>

\* the task of _gather_structure: it catches every exception and returns []
GatherStructure ==
    /\ pc = "gathering"
    /\ tasks["structure"].state = "pending"
    /\ tasks' = [tasks EXCEPT !["structure"] =
                    [state |-> "done",
                     result |-> IF "iterdir" \in Faults THEN <<>>
                                ELSE _gather_structure(Walk)]]
    /\ UNCHANGED <<toolvars, orchvars>>
    /\ UNCHANGED <<workspace, request, budget, pc, prioritized, objects, files,
                   stored, calls, ret>>

\* the task of _gather_dependencies
GatherDependencies ==
    /\ pc = "gathering"
    /\ tasks["deps"].state = "pending"
    /\ tasks' = [tasks EXCEPT !["deps"] =
                    [state |-> "done", result |-> _gather_dependencies(Walk)]]
    /\ UNCHANGED <<toolvars, orchvars>>
    /\ UNCHANGED <<workspace, request, budget, pc, prioritized, objects, files,
                   stored, calls, ret>>

\* gather_all without return_exceptions: one failed pass loses every result
GatheredChunksAllOrNothing(t) ==
    IF \E p \in Passes : t[p].state = "failed" THEN <<>>
    ELSE (IF t["files"].state = "done" THEN t["files"].result ELSE <<>>)
         \o (IF t["structure"].state = "done" THEN t["structure"].result ELSE <<>>)
         \o (IF t["deps"].state = "done" THEN t["deps"].result ELSE <<>>)

\* the results of asyncio.gather in task order: an exception is logged, a
\* list is added to chunks
GatheredChunks(t) ==
    (IF t["files"].state = "done" THEN t["files"].result ELSE <<>>)
    \o (IF t["structure"].state = "done" THEN t["structure"].result ELSE <<>>)
    \o (IF t["deps"].state = "done" THEN t["deps"].result ELSE <<>>)

\* the join of gather_all, followed in prepare_context by prioritize
Prioritize ==
    /\ pc = "gathering"
    /\ \A p \in Passes : tasks[p].state # "pending"
    /\ pc' = "prioritized"
    /\ prioritized' = prioritize(GatheredChunks(tasks), request.task_type,
                                 request.keywords)
    /\ UNCHANGED <<toolvars, orchvars>>
    /\ UNCHANGED <<workspace, request, budget, tasks, objects, files, stored,
                   calls, ret>>

\* compress(prioritized, budget): the first CompressedContext object
Compress ==
    /\ pc = "prioritized"
    /\ pc' = "compressed"
    /\ objects' = <<compress(prioritized, budget)>>
    /\ ret' = [NoReturn EXCEPT !.op = "compress", !.obj = 1]
    /\ UNCHANGED <<toolvars, orchvars>>
    /\ UNCHANGED <<workspace, request, budget, tasks, prioritized, files,
                   stored, calls>>

\* add_error_context(objects[c], error_message, stack_trace); constructing the
\* error chunk raises when its content is empty
AddErrorContext ==
    /\ pc = "compressed"
    /\ Len(objects) <= MaxErrorContexts
    /\ \E c \in DOMAIN objects, error_message \in ErrorMessages,
          stack_trace \in StackTraces :
          LET content == ErrorContent(error_message, stack_trace)
          IN  IF ValidChunk(content, "error", "CRITICAL", count_tokens(content))
              THEN /\ objects' = AddErrorObjects(objects, c,
                                     ErrorChunk(Len(objects), error_message, stack_trace))
                   /\ ret' = [NoReturn EXCEPT !.op = "add_error_context",
                                              !.arg = c, !.obj = Len(objects) + 1]
              ELSE /\ objects' = objects
                   /\ ret' = [NoReturn EXCEPT !.op = "add_error_context",
                                              !.arg = c, !.raised = TRUE]
    /\ UNCHANGED <<toolvars, orchvars>>
    /\ UNCHANGED <<workspace, request, budget, pc, tasks, prioritized, files,
                   stored, calls>>

\* ContextCheckpoint.save(task_id, objects[c])
Save ==
    /\ pc = "compressed"
    /\ calls < MaxCheckpointOps
    /\ \E t \in TaskIds, c \in DOMAIN objects :
          /\ files' = save(files, t, objects[c])
          /\ stored' = [stored EXCEPT ![t] = Append(@, c)]
          /\ ret' = [NoReturn EXCEPT !.op = "save", !.task = t, !.arg = c]
    /\ calls' = calls + 1
    /\ UNCHANGED <<toolvars, orchvars>>
    /\ UNCHANGED <<workspace, request, budget, pc, tasks, prioritized, objects>>

\* ContextCheckpoint.load(task_id)
Load ==
    /\ pc = "compressed"
    /\ calls < MaxCheckpointOps
    /\ \E t \in TaskIds :
          ret' = [NoReturn EXCEPT !.op = "load", !.task = t,
                                  !.raised = load(files, t).raised,
                                  !.value = load(files, t).value]
    /\ calls' = calls + 1
    /\ UNCHANGED <<toolvars, orchvars>>
    /\ UNCHANGED <<workspace, request, budget, pc, tasks, prioritized, objects,
                   files, stored>>

\* ContextCheckpoint.delete(task_id)
Delete ==
    /\ pc = "compressed"
    /\ calls < MaxCheckpointOps
    /\ \E t \in TaskIds :
          /\ files' = delete(files, t).files
          /\ stored' = [stored EXCEPT ![t] = <<>>]
          /\ ret' = [NoReturn EXCEPT !.op = "delete", !.task = t,
                                     !.flag = delete(files, t).value]
    /\ calls' = calls + 1
    /\ UNCHANGED <<toolvars, orchvars>>
    /\ UNCHANGED <<workspace, request, budget, pc, tasks, prioritized, objects>>

Next ==
    \/ GatherStart
    \/ GatherFiles
    \/ GatherStructure
    \/ GatherDependencies
    \/ Prioritize
    \/ Compress
    \/ AddErrorContext

Spec == Init /\ [][Next]_vars

\* the checkpoint calls, on the contexts prepare_context makes of one of the
\* project trees
CheckpointInit ==
    /\ Init
    /\ workspace = 2
    /\ request.include_structure
    /\ budget.reserved \in {900, 930}

CheckpointNext == Next \/ Save \/ Load \/ Delete

CheckpointSpec == CheckpointInit /\ [][CheckpointNext]_vars

\* ToolFactory(workspace)
NewToolFactory ==
    /\ Len(factories) < MaxFactories
    /\ \E root \in WorkspaceRoots :
           /\ factories' = Append(factories, root)
           /\ _tools' =
                  _register_builtin_tools(_tools, _builtins_registered, root).tools
           /\ _builtins_registered' =
                  _register_builtin_tools(_tools, _builtins_registered,
                                          root).registered
    /\ UNCHANGED <<fs, running, last>>
    /\ UNCHANGED <<ctxvars, orchvars>>

\* @register_tool(name, ...) on a function of the caller, whose module
\* postpones the evaluation of annotations or not
RegisterTool ==
    /\ \E kind \in {"class", "string"} :
           _tools' = register_tool(_tools, "custom_tool", <<>>,
                                   Func("custom", <<>>, kind, DataParams))
    /\ UNCHANGED <<_builtins_registered, factories, fs, running, last>>
    /\ UNCHANGED <<ctxvars, orchvars>>

\* factory.create_tool(name, description, parameters, handler)
CreateTool ==
    /\ factories # <<>>
    /\ \E name \in RegisteredNames, parameters \in SampleParameters,
          task_types \in SampleTaskTypes :
           _tools' = create_tool(_tools, name, parameters,
                                 Func("custom", <<>>, "empty", DataParams),
                                 task_types)
    /\ UNCHANGED <<_builtins_registered, factories, fs, running, last>>
    /\ UNCHANGED <<ctxvars, orchvars>>

\* await factory.execute_tool(name, params), up to its return or to the
\* await of the subprocess
ExecuteTool ==
    /\ factories # <<>>
    /\ running = None
    /\ \E name \in ToolNames :
       \E params \in SampleParams(name), spawn \in Spawns(name) :
           \E done \in {execute_tool(_tools, name, params, fs, spawn)} :
               /\ fs' = done.fs
               /\ running' = done.process
               /\ last' = CallRecord("execute_tool", name,
                                     IF name \in DOMAIN _tools
                                     THEN Some(_tools[name]) ELSE None,
                                     DictParams(params), done)
    /\ UNCHANGED <<_tools, _builtins_registered, factories>>
    /\ UNCHANGED <<ctxvars, orchvars>>

\* await entry.handler(Model(**params)): the handler of a built-in tool
\* called with an instance of the parameter model its signature names
CallHandler ==
    /\ running = None
    /\ \E name \in DOMAIN _tools :
       \E params \in SampleParams(_tools[name].handler.fn),
          spawn \in Spawns(_tools[name].handler.fn) :
           /\ _tools[name].handler.fn # "custom"
           /\ ~model_validate_raises(_tools[name].handler.annotation.model, params)
           /\ \E instance \in {ModelParams(model_validate(
                                   _tools[name].handler.annotation.model,
                                   params))} :
                  \E done \in {Call(_tools[name].handler, instance, fs, spawn)} :
                      /\ fs' = done.fs
                      /\ running' = done.process
                      /\ last' = CallRecord("handler", name,
                                            Some(_tools[name]), instance, done)
    /\ UNCHANGED <<_tools, _builtins_registered, factories>>
    /\ UNCHANGED <<ctxvars, orchvars>>

\* a second passes while the subprocess runs and the handler awaits it
Tick ==
    /\ running # None
    /\ running[1].elapsed < running[1].duration
    /\ running' = Some([running[1] EXCEPT !.elapsed = @ + 1])
    /\ UNCHANGED <<_tools, _builtins_registered, factories, fs, last>>
    /\ UNCHANGED <<ctxvars, orchvars>>

\* the subprocess exits: communicate() returns and the handler with it
Communicate ==
    /\ running # None
    /\ running[1].elapsed >= running[1].duration
    /\ running' = None
    /\ last' = [last EXCEPT !.value = communicate(running[1]),
                            !.pending = FALSE]
    /\ UNCHANGED <<_tools, _builtins_registered, factories, fs>>
    /\ UNCHANGED <<ctxvars, orchvars>>

\* factory.get_tools_for_task(task_type)
GetToolsForTask ==
    /\ factories # <<>>
    /\ running = None
    /\ \E task_type \in TaskTypes :
           last' = [NoCall EXCEPT !.op = "get_tools_for_task",
                                  !.name = task_type,
                                  !.value = get_for_task(_tools, task_type)]
    /\ UNCHANGED <<_tools, _builtins_registered, factories, fs, running>>
    /\ UNCHANGED <<ctxvars, orchvars>>

ToolNext ==
    \/ NewToolFactory
    \/ RegisterTool
    \/ CreateTool
    \/ ExecuteTool
    \/ CallHandler
    \/ Tick
    \/ Communicate
    \/ GetToolsForTask

\* the consume calls of a client on the budget of a task
MaxConsumed == 300

TokenAmounts == {0 - 50, 0, 50, 120}

ConsumeInput ==
    /\ \E tokens \in TokenAmounts :
           /\ consume_input(budget, tokens).input_used \in (0 - MaxConsumed)..MaxConsumed
           /\ budget' = consume_input(budget, tokens)
    /\ UNCHANGED <<workspace, request, pc, tasks, prioritized, objects, files,
                   stored, calls, ret>>
    /\ UNCHANGED <<toolvars, orchvars>>

ConsumeOutput ==
    /\ \E tokens \in TokenAmounts :
           /\ consume_output(budget, tokens).output_used \in (0 - MaxConsumed)..MaxConsumed
           /\ budget' = consume_output(budget, tokens)
    /\ UNCHANGED <<workspace, request, pc, tasks, prioritized, objects, files,
                   stored, calls, ret>>
    /\ UNCHANGED <<toolvars, orchvars>>

BudgetNext == ConsumeInput \/ ConsumeOutput

\* the tool layer on its own, the context pipeline at rest
ToolSpecInit ==
    /\ Init
    /\ workspace = 1
    /\ request = CHOOSE r \in Requests : TRUE
    /\ budget = CHOOSE b \in Budgets : ValidBudget(b)

ToolSpec == ToolSpecInit /\ [][ToolNext]_vars

\* the budget on its own, from a fresh TokenBudget
BudgetSpec == ToolSpecInit /\ [][BudgetNext]_vars

(***************************************************************************)
(* orchestrator.py: CopilotClient and Orchestrator.execute                 *)
(***************************************************************************)
MaxEvents == 2

MaxRuns == 2

\* CopilotClient.__init__: _agent is not among the attributes it sets
CopilotClient(mock_mode) ==
    [_mock_mode |-> mock_mode, _sdk_client |-> None, _sdk_session |-> None,
     _session_id |-> FALSE, _agent |-> "unset"]

\* CopilotClient.close as the class defines it last: the session id and the
\* agent are reset; the definition that destroys the SDK session and stops
\* the SDK client stands earlier in the class body and is replaced by this one
close(c) == [c EXCEPT !._session_id = FALSE, !._agent = "None"]

\* the session state machine the SessionState docstring draws
DocumentedTransitions ==
    {<<"INITIALIZING", "ACTIVE">>, <<"ACTIVE", "STREAMING">>,
     <<"STREAMING", "IDLE">>, <<"IDLE", "COMPLETED">>,
     <<"ACTIVE", "ERROR">>, <<"IDLE", "ERROR">>, <<"ERROR", "TERMINATED">>}

SessionInfo(session_id, state) == [session_id |-> session_id, state |-> state]

\* the arguments the model gives when it calls a tool
CallArguments(name) ==
    IF name = "custom_tool" THEN [data |-> L_plain]
    ELSE [path |-> RelPath(<<N_notes_txt>>)]

\* the task type of the request
OrchestratorTask == "IMPLEMENT"

\* the names of the tools handed to the session: tool_handlers
ToolHandlers == {entry.definition.name :
                    entry \in get_for_task(_tools, OrchestratorTask)}

\* the tools the model calls
CalledTools == {"custom_tool", "read_file"} \cap ToolHandlers

\* _generate_mock_response: text chunks, and a tool call when the request
\* speaks of creating or implementing
MockResponses ==
    {<<[type |-> "text", n |-> 1, tool |-> ""]>>,
     <<[type |-> "text", n |-> 1, tool |-> ""],
       [type |-> "tool_call", n |-> 2, tool |-> "list_directory"]>>}

DoneChunk == [type |-> "done", n |-> 0, tool |-> ""]

\* on_event: the chunk an SDK event is turned into (none for
\* assistant.message and session.idle)
ChunkOf(event_type, n, tool) ==
    CASE event_type = "assistant.message_delta" ->
             Some([type |-> "text", n |-> n, tool |-> ""])
      [] event_type = "assistant.reasoning_delta" ->
             Some([type |-> "reasoning", n |-> n, tool |-> ""])
      [] event_type = "tool.call" ->
             Some([type |-> "tool_call", n |-> n, tool |-> tool])
      [] event_type = "tool.result" ->
             Some([type |-> "tool_result", n |-> n, tool |-> tool])
      [] event_type = "error" ->
             Some([type |-> "error", n |-> n, tool |-> ""])
      [] OTHER -> None

\* on_event: the chunk is handed to call_soon_threadsafe(put_nowait), and
\* session.idle and error set done_event at once
on_event(st, event_type, tool) ==
    Bind(ChunkOf(event_type, st.sent + 1, tool), LAMBDA chunk :
        [st EXCEPT
            !.sent = @ + 1,
            !.delivered = IF chunk # None /\ event_type # "error"
                          THEN Append(@, chunk[1]) ELSE @,
            !.scheduled = IF chunk # None THEN Append(@, chunk[1]) ELSE @,
            !.done_event = @ \/ event_type \in {"session.idle", "error"},
            !.terminal = @ \/ event_type \in {"session.idle", "error"}])

\* Orchestrator(): the tool factory registers the built-in tools, and the
\* client is in mock mode or not as the environment says
NewOrchestrator ==
    /\ epc = "none"
    /\ \E mock_mode \in BOOLEAN : client' = Some(CopilotClient(mock_mode))
    /\ \E root \in {<<N_ws>>} :
           /\ factories' = Append(factories, root)
           /\ _tools' =
                  _register_builtin_tools(_tools, _builtins_registered, root).tools
           /\ _builtins_registered' =
                  _register_builtin_tools(_tools, _builtins_registered,
                                          root).registered
    /\ epc' = "new"
    /\ UNCHANGED <<session_info, sdk, stream, executions, runs>>
    /\ UNCHANGED <<fs, running, last>>
    /\ UNCHANGED ctxvars

\* execute on the fast path: an ephemeral skill handles the request, and a
\* SessionInfo made for the occasion is returned
ExecuteEphemeral ==
    /\ epc \in {"new", "returned", "raised"}
    /\ runs < MaxRuns
    /\ runs' = runs + 1
    /\ epc' = "returned"
    /\ session_info' = session_info
    /\ stream' = NoStream
    /\ executions' = <<>>
    /\ UNCHANGED <<client, sdk>>
    /\ UNCHANGED <<ctxvars, toolvars>>

\* execute on the full path, up to the try block: self.session_info is a new
\* SessionInfo in state INITIALIZING
ExecuteStart ==
    /\ epc \in {"new", "returned", "raised"}
    /\ runs < MaxRuns
    /\ runs' = runs + 1
    /\ session_info' = Some(SessionInfo(runs + 1, "INITIALIZING"))
    /\ epc' = "gathering"
    /\ stream' = NoStream
    /\ executions' = <<>>
    /\ UNCHANGED <<client, sdk>>
    /\ UNCHANGED <<ctxvars, toolvars>>

\* except Exception: the state becomes ERROR and the exception is raised
\* again; finally: the client is closed
Raise ==
    /\ session_info' = Some([session_info[1] EXCEPT !.state = "ERROR"])
    /\ client' = Some(close(client[1]))
    /\ epc' = "raised"

\* await self._gather_context(envelope), which returns or raises
GatherContext ==
    /\ epc = "gathering"
    /\ \/ /\ epc' = "creating"
          /\ UNCHANGED <<session_info, client>>
       \/ Raise
    /\ UNCHANGED <<sdk, stream, executions, runs>>
    /\ UNCHANGED <<ctxvars, toolvars>>

\* the tools of the task are handed to the client, and create_session starts
\* an SDK client and a session on it; when that fails the client falls back
\* to mock mode and forgets the SDK client.  The state becomes ACTIVE.
CreateSession ==
    /\ epc = "creating"
    /\ IF client[1]._mock_mode
       THEN /\ client' = Some([client[1] EXCEPT !._session_id = TRUE])
            /\ sdk' = sdk
       ELSE \/ /\ sdk' = Append(sdk, [running |-> TRUE, session |-> "open"])
               /\ client' = Some([client[1] EXCEPT
                                     !._session_id = TRUE,
                                     !._sdk_client = Some(Len(sdk) + 1),
                                     !._sdk_session = Some(Len(sdk) + 1)])
            \/ /\ \E started \in BOOLEAN :
                      sdk' = IF started
                             THEN Append(sdk, [running |-> TRUE,
                                               session |-> "none"])
                             ELSE sdk
               /\ client' = Some([client[1] EXCEPT
                                     !._session_id = TRUE,
                                     !._mock_mode = TRUE,
                                     !._sdk_client = None,
                                     !._sdk_session = None])
    /\ session_info' = Some([session_info[1] EXCEPT !.state = "ACTIVE"])
    /\ epc' = "active"
    /\ UNCHANGED <<stream, executions, runs>>
    /\ UNCHANGED <<ctxvars, toolvars>>

\* _conversation_loop: send_message, up to the first chunk.  With an SDK
\* session on_event is registered and the prompt is sent; otherwise the mock
\* response is made.
SendMessage ==
    /\ epc = "active"
    /\ IF ~client[1]._mock_mode /\ client[1]._sdk_session # None
       THEN stream' = [NoStream EXCEPT !.mode = "sdk"]
       ELSE \E chunks \in MockResponses :
                stream' = [NoStream EXCEPT !.mode = "mock", !.pending = chunks]
    /\ epc' = "streaming"
    /\ UNCHANGED <<session_info, client, sdk, executions, runs>>
    /\ UNCHANGED <<ctxvars, toolvars>>

\* the SDK delivers an event of the response to on_event; a tool the model
\* calls is run by the SDK through the handler registered for it, which
\* catches what the tool raises
SdkEvent ==
    /\ epc = "streaming"
    /\ stream.mode = "sdk"
    /\ ~stream.terminal
    /\ stream.sent < MaxEvents
    /\ \/ /\ \E event_type \in {"assistant.message_delta", "assistant.message",
                               "assistant.reasoning_delta"} :
                 stream' = on_event(stream, event_type, "")
          /\ UNCHANGED <<executions, fs>>
       \/ \E name \in CalledTools :
          \E done \in {execute(_tools[name], CallArguments(name), fs, NoSpawn)} :
              /\ stream' = on_event(stream, "tool.call", name)
              /\ executions' =
                     IF done.invoked
                     THEN Append(executions,
                                 [call |-> stream.sent + 1, by |-> "sdk"])
                     ELSE executions
              /\ fs' = done.fs
       \/ /\ \E i \in DOMAIN stream.delivered :
                 /\ stream.delivered[i].type = "tool_call"
                 /\ stream' = on_event(stream, "tool.result",
                                       stream.delivered[i].tool)
          /\ UNCHANGED <<executions, fs>>
    /\ UNCHANGED <<session_info, epc, client, sdk, runs>>
    /\ UNCHANGED <<_tools, _builtins_registered, factories, running, last>>
    /\ UNCHANGED ctxvars

\* the SDK delivers session.idle
SdkIdle ==
    /\ epc = "streaming"
    /\ stream.mode = "sdk"
    /\ ~stream.terminal
    /\ stream' = on_event(stream, "session.idle", "")
    /\ UNCHANGED <<session_info, epc, client, sdk, executions, runs>>
    /\ UNCHANGED <<ctxvars, toolvars>>

\* the SDK delivers an error event
SdkError ==
    /\ epc = "streaming"
    /\ stream.mode = "sdk"
    /\ ~stream.terminal
    /\ stream' = on_event(stream, "error", "")
    /\ UNCHANGED <<session_info, epc, client, sdk, executions, runs>>
    /\ UNCHANGED <<ctxvars, toolvars>>

\* the event loop runs the callback scheduled first: event_queue.put_nowait
RunCallback ==
    /\ stream.scheduled # <<>>
    /\ stream' = [stream EXCEPT !.scheduled = Tail(@),
                                !.event_queue = Append(@, Head(stream.scheduled))]
    /\ UNCHANGED <<session_info, epc, client, sdk, executions, runs>>
    /\ UNCHANGED <<ctxvars, toolvars>>

\* the chunk the stream yields next: the head of event_queue (in the waiting
\* loop or in the drain), the done chunk once done_event is set and the queue
\* is empty; for a mock response its chunks and then the done chunk
CanYield(st) ==
    \/ st.mode = "mock"
    \/ st.mode = "sdk" /\ (st.event_queue # <<>> \/ st.done_event)

NextOf(st) ==
    IF st.mode = "mock"
    THEN (IF st.pending # <<>> THEN Head(st.pending) ELSE DoneChunk)
    ELSE (IF st.event_queue # <<>> THEN Head(st.event_queue) ELSE DoneChunk)

Yield(st) ==
    [st EXCEPT !.yielded = Append(@, NextOf(st)),
               !.finished = NextOf(st).type = "done",
               !.pending = IF @ # <<>> THEN Tail(@) ELSE @,
               !.event_queue = IF @ # <<>> THEN Tail(@) ELSE @]

\* one turn of the loop over the chunks of send_message in _conversation_loop:
\* a tool_call chunk is executed through _execute_tool and its result is
\* submitted (submit_tool_result reads self._agent); the done chunk ends the
\* loop, the state becomes COMPLETED and the client is closed
NextChunk ==
    /\ epc = "streaming"
    /\ CanYield(stream)
    /\ stream' = Yield(stream)
    /\ \E chunk \in {NextOf(stream)} :
          CASE chunk.type = "done" ->
                   /\ session_info' =
                          Some([session_info[1] EXCEPT !.state = "COMPLETED"])
                   /\ client' = Some(close(client[1]))
                   /\ epc' = "returned"
                   /\ UNCHANGED <<executions, fs>>
            [] chunk.type = "tool_call" ->
                   \E done \in {execute_tool(_tools, chunk.tool,
                                             CallArguments(chunk.tool), fs,
                                             NoSpawn)} :
                       /\ executions' =
                              IF done.invoked
                              THEN Append(executions,
                                          [call |-> chunk.n,
                                           by |-> "orchestrator"])
                              ELSE executions
                       /\ fs' = done.fs
                       /\ IF \/ done.raised # ""
                             \/ ~client[1]._mock_mode /\ client[1]._agent = "unset"
                          THEN Raise
                          ELSE UNCHANGED <<session_info, client, epc>>
            [] OTHER ->
                   UNCHANGED <<session_info, client, epc, executions, fs>>
    /\ UNCHANGED <<sdk, runs>>
    /\ UNCHANGED <<_tools, _builtins_registered, factories, running, last>>
    /\ UNCHANGED ctxvars

OrchestratorNext ==
    \/ (epc = "none" /\ RegisterTool)
    \/ NewOrchestrator
    \/ ExecuteEphemeral
    \/ ExecuteStart
    \/ GatherContext
    \/ CreateSession
    \/ SendMessage
    \/ SdkEvent
    \/ SdkIdle
    \/ SdkError
    \/ RunCallback
    \/ NextChunk

OrchestratorSpec == ToolSpecInit /\ [][OrchestratorNext]_vars

(***************************************************************************)
(* Properties of compress                                                  *)
(***************************************************************************)
\* the CompressedContext that compress returned
Compressed == objects[1]

IsTruncated(chunk) == "truncated" \in DOMAIN chunk.metadata

\* the position in the input of the k-th included chunk, or 0
InputIndex(k) ==
    LET same == {i \in 1..Len(prioritized) :
                    prioritized[i].chunk_id = Compressed.chunks[k].chunk_id}
    IN  IF same = {} THEN 0 ELSE CHOOSE i \in same : TRUE

\* the included chunk made from the i-th input chunk, or 0
OutputIndex(i) ==
    LET same == {k \in 1..Len(Compressed.chunks) :
                    Compressed.chunks[k].chunk_id = prioritized[i].chunk_id}
    IN  IF same = {} THEN 0 ELSE CHOOSE k \in same : TRUE

IncludedWhole(i) ==
    OutputIndex(i) # 0 /\ Compressed.chunks[OutputIndex(i)] = prioritized[i]

IncludedTruncated(i) ==
    OutputIndex(i) # 0 /\ IsTruncated(Compressed.chunks[OutputIndex(i)])

\* the maximum the k-th included chunk was truncated to: available minus the
\* running total before it
RequestedMax(k) ==
    input_available(budget) - SumTokens(SubSeq(Compressed.chunks, 1, k - 1))

\* C1: compress returns a CompressedContext whose total_tokens is at most
\* budget.input_available
C1_TotalWithinBudget ==
    pc = "compressed" => Compressed.total_tokens <= input_available(budget)

C3_TokenCountExact ==
    \A o \in DOMAIN objects : \A k \in DOMAIN objects[o].chunks :
        objects[o].chunks[k].token_count = count(objects[o].chunks[k].content)

\* C4: the compression_ratio that compress returns is at least 1.0, and it is
\* 1.0 when total_tokens is 0
C4_RatioAtLeastOne ==
    pc = "compressed" =>
        /\ Compressed.compression_ratio.num >= Compressed.compression_ratio.den
        /\ Compressed.total_tokens = 0 =>
               Compressed.compression_ratio.num = Compressed.compression_ratio.den

C6_TruncatedWithinMax ==
    pc = "compressed" =>
        \A k \in DOMAIN Compressed.chunks :
            IsTruncated(Compressed.chunks[k]) =>
                count(Compressed.chunks[k].content) <= RequestedMax(k)

\* the input chunks that are not included whole, in input order: each has one
\* entry in excluded_sources
NotWhole == SelectSeq([i \in DOMAIN prioritized |-> i], LAMBDA i : ~IncludedWhole(i))

\* C7: an entry of excluded_sources carries the "(truncated)" suffix exactly
\* when its chunk was included in truncated form; a chunk dropped because fewer
\* than 50 tokens remain is recorded with its plain source
C7_SuffixIffTruncated ==
    pc = "compressed" =>
        /\ Len(Compressed.excluded_sources) = Len(NotWhole)
        /\ \A n \in DOMAIN NotWhole :
              Compressed.excluded_sources[n] =
                  IF IncludedTruncated(NotWhole[n])
                  THEN prioritized[NotWhole[n]].source \o TruncatedSuffix
                  ELSE prioritized[NotWhole[n]].source

\* C24: whenever compress includes a truncated chunk, the running total is
\* set to the available budget: the total_tokens of the returned
\* CompressedContext equals budget.input_available
C24_TruncationConsumesBudget ==
    pc = "compressed" =>
        ((\E k \in DOMAIN Compressed.chunks : IsTruncated(Compressed.chunks[k]))
            => Compressed.total_tokens = input_available(budget))

C8_AddErrorContext ==
    [][ret'.op = "add_error_context" /\ ret' # ret =>
          /\ \A o \in DOMAIN objects : objects'[o] = objects[o]
          /\ IF ret'.raised THEN objects' = objects
             ELSE /\ Len(objects') = Len(objects) + 1
                  /\ ret'.obj = Len(objects')
                  /\ LET old == objects[ret'.arg]
                         new == objects'[ret'.obj]
                     IN  /\ Len(new.chunks) = Len(old.chunks) + 1
                         /\ new.chunks[1].chunk_type = "error"
                         /\ new.chunks[1].priority = "CRITICAL"
                         /\ \A k \in DOMAIN old.chunks :
                                new.chunks[k + 1] = old.chunks[k]
                                /\ new.chunks[1].chunk_id # old.chunks[k].chunk_id
                         /\ new.total_tokens =
                                old.total_tokens + new.chunks[1].token_count
                         /\ objects'[ret'.arg].chunks = old.chunks
                         /\ objects'[ret'.arg].total_tokens = old.total_tokens]_vars

C8_Witness ==
    /\ ret.op = "add_error_context"
    /\ ~ret.raised
    /\ ret.obj = 2
    /\ Len(objects[1].chunks) >= 2
    /\ objects[2].chunks[1].token_count > 0
    /\ objects[2].total_tokens = objects[1].total_tokens + objects[2].chunks[1].token_count

(***************************************************************************)
(* Properties of ContextCheckpoint                                         *)
(***************************************************************************)
\* the object last saved under task_id
LastSaved(task_id) == objects[stored[task_id][Len(stored[task_id])]]

C10_Delete ==
    [][ret'.op = "delete" /\ calls' # calls =>
          /\ ret'.flag = (stored[ret'.task] # <<>>)
          /\ load(files', ret'.task) = [raised |-> FALSE, value |-> None]
          /\ \A u \in TaskIds \ {ret'.task} :
                /\ files'[u] = files[u]
                /\ load(files', u) = load(files, u)]_vars

C10_Witness ==
    /\ ret.op = "delete"
    /\ ret.flag
    /\ files[ret.task] = None
    /\ \E u \in TaskIds \ {ret.task} :
          stored[u] # <<>> /\ load(files, u).value = Some(LastSaved(u))

(***************************************************************************)
(* Properties of ContextPrioritizer                                        *)
(***************************************************************************)
\* prioritize has run
Prioritized == pc \in {"prioritized", "compressed"}

\* the scores of the chunks of the prioritized list, by position
Scores ==
    [i \in DOMAIN prioritized |->
        _score_chunk(prioritized[i], request.task_type, request.keywords)]

\* the position in the gathered list of the chunk at position i of the
\* prioritized list, or 0
GatheredIndex(i) ==
    LET same == {k \in DOMAIN GatheredChunks(tasks) :
                    GatheredChunks(tasks)[k] = prioritized[i]}
    IN  IF same = {} THEN 0 ELSE CHOOSE k \in same : TRUE

\* C11: prioritize returns a permutation of its input in order of
\* non-increasing score, chunks of equal score in their input order; the output
\* is therefore a function of the chunk list, the task type and the keywords
C11_StableDescending ==
    Prioritized =>
        Bind(Scores, LAMBDA sc :
            Bind([i \in DOMAIN prioritized |-> GatheredIndex(i)], LAMBDA at :
                /\ Len(prioritized) = Len(GatheredChunks(tasks))
                /\ \A i \in DOMAIN prioritized : at[i] # 0
                /\ \A i, j \in DOMAIN prioritized :
                      i < j => /\ at[i] # at[j]
                               /\ sc[i] >= sc[j]
                               /\ sc[i] = sc[j] => at[i] < at[j]))

C11_Witness ==
    /\ pc = "prioritized"
    /\ prioritized # GatheredChunks(tasks)
    /\ \E i \in DOMAIN prioritized :
          /\ i < Len(prioritized)
          /\ Scores[i] = Scores[i + 1]
          /\ GatheredIndex(i) < GatheredIndex(i + 1)

\* 150 for every keyword in the source plus 50 for every keyword in the content
AdditiveKeywordBoost(keywords, source_lower, content_lower) ==
    SourceKeywordBoost
        * Cardinality({k \in DOMAIN keywords : Contains(source_lower, keywords[k])})
    + ContentKeywordBoost
        * Cardinality({k \in DOMAIN keywords : Contains(content_lower, keywords[k])})

\* C12: the keyword boosts of a score are additive: every keyword adds 150 when
\* it is in the source and adds 50 when it is in the content, the two tests
\* independent of each other
C12_KeywordBoostsAdditive ==
    Prioritized =>
        \A i \in DOMAIN prioritized :
            Scores[i] - _score_chunk(prioritized[i], request.task_type, <<>>)
                = AdditiveKeywordBoost(request.keywords, Lower(prioritized[i].source),
                                       Lower(prioritized[i].content))

\* the request is the login scenario: its keywords, task type DEBUG
LoginScenario ==
    /\ Prioritized
    /\ request.task_type = "DEBUG"
    /\ request.keywords = _extract_keywords(R_login)

SourceNamesLoginOrHandler(chunk) ==
    \/ Contains(Lower(chunk.source), K_login)
    \/ Contains(Lower(chunk.source), K_handler)

NoKeywordIn(text) ==
    \A k \in DOMAIN request.keywords : ~Contains(Lower(text), request.keywords[k])

\* the boosts of a score that do not come from the keywords
OtherBoosts(chunk) ==
    _score_chunk(chunk, request.task_type, <<>>) - PRIORITY_SCORES(chunk.priority)

\* C13 as stated: in the login scenario a chunk whose source contains "login"
\* or "handler" is ranked above every chunk of the same tier whose source
\* contains none of the keywords
C13_SourceMatchFirst ==
    LoginScenario =>
        \A i, j \in DOMAIN prioritized :
            /\ SourceNamesLoginOrHandler(prioritized[i])
            /\ prioritized[j].priority = prioritized[i].priority
            /\ NoKeywordIn(prioritized[j].source)
            => i < j

\* C13: in the login scenario a chunk whose source contains "login" or
\* "handler" is ranked above every chunk of the same tier whose source and
\* content contain none of the keywords and whose other boosts (task pattern,
\* error or exception in the content) are not larger than its own
C13_SourceMatchAboveUnrelated ==
    LoginScenario =>
        \A i, j \in DOMAIN prioritized :
            /\ SourceNamesLoginOrHandler(prioritized[i])
            /\ prioritized[j].priority = prioritized[i].priority
            /\ NoKeywordIn(prioritized[j].source)
            /\ NoKeywordIn(prioritized[j].content)
            /\ OtherBoosts(prioritized[j]) <= OtherBoosts(prioritized[i])
            => i < j

C13_Witness ==
    /\ LoginScenario
    /\ pc = "prioritized"
    /\ \E i, j \in DOMAIN prioritized :
          /\ SourceNamesLoginOrHandler(prioritized[i])
          /\ prioritized[j].priority = prioritized[i].priority
          /\ NoKeywordIn(prioritized[j].source)
          /\ NoKeywordIn(prioritized[j].content)
          /\ OtherBoosts(prioritized[j]) <= OtherBoosts(prioritized[i])
          /\ i < j
          /\ GatheredIndex(j) < GatheredIndex(i)

(***************************************************************************)
(* Properties of the tool layer                                            *)
(***************************************************************************)
\* the last call went through ToolFactory.execute_tool
ThroughExecute == last.op = "execute_tool"

\* the last call reached the built-in tool fn, through execute_tool or by its
\* handler
BuiltinCalled(fn) ==
    /\ last.tool # None
    /\ last.name = fn
    /\ last.tool[1].handler.fn = fn

\* the parameters a tool declares as required: in its definition, and in the
\* parameter model its handler names
RequiredOf(entry) ==
    SchemaRequired(entry.definition)
        \cup (IF entry.handler.annotation.kind \in {"class", "string"}
              THEN RequiredNames(entry.handler.annotation.model) ELSE {})

\* C14: when execute_tool is called for a registered tool with params that
\* lack a parameter the tool requires, the call raises the validation error
\* and the handler is not invoked.
C14_ValidatedBeforeHandler ==
    (/\ ThroughExecute
     /\ last.tool # None
     /\ ~(RequiredOf(last.tool[1]) \subseteq DOMAIN last.params.fields))
    => /\ last.raised = "ValueError"
       /\ last.message = "Parameter validation failed"
       /\ ~last.invoked

\* C15: execute_tool with a name the registry does not hold raises ValueError
\* "Tool not found"; no handler is invoked, no file is read or written and no
\* subprocess is started.
C15_UnknownToolRaises ==
    /\ [](ThroughExecute /\ last.tool = None
          => /\ last.raised = "ValueError"
             /\ last.message = "Tool not found"
             /\ ~last.invoked
             /\ last.reads = {}
             /\ ~last.pending)
    /\ [][last'.op = "execute_tool" /\ last'.tool = None
          => fs' = fs /\ running' = None]_vars

C15_Witness ==
    /\ ThroughExecute
    /\ last.tool = None
    /\ last.name = "custom_tool"
    /\ last.raised = "ValueError"
    /\ "read_file" \in DOMAIN _tools

\* the path of the last call resolves outside the workspace root the tool
\* was registered with
OutsideWorkspace ==
    /\ last.tool # None
    /\ "path" \in DOMAIN last.params.fields
    /\ relative_to_raises(
           resolve(PathJoin(last.tool[1].handler.workspace,
                            last.params.fields.path)),
           resolve(last.tool[1].handler.workspace))

AccessDeniedReturned ==
    /\ last.raised = ""
    /\ last.value = ErrorResult(AccessDenied)

\* C16: a call of read_file, write_file or list_directory through execute_tool
\* with a path outside the workspace root returns the access-denied result,
\* reads no file and leaves the file system as it was.
C16_FileToolsSandboxed ==
    /\ [](/\ ThroughExecute
          /\ \E fn \in {"read_file", "write_file", "list_directory"} :
                 BuiltinCalled(fn)
          /\ OutsideWorkspace
          => AccessDeniedReturned /\ last.reads = {})
    /\ [][(/\ last'.op = "execute_tool"
           /\ last'.name \in {"read_file", "write_file", "list_directory"})
          => (OutsideWorkspace' => fs' = fs)]_vars

\* C17: a call of analyze_code or search_code with a path outside the
\* workspace root returns the access-denied result and reads no file outside
\* the workspace root.
C17_AnalysisToolsSandboxed ==
    (/\ \E fn \in {"analyze_code", "search_code"} : BuiltinCalled(fn)
     /\ OutsideWorkspace)
    => /\ AccessDeniedReturned
       /\ \A p \in last.reads :
              ~relative_to_raises(p, resolve(last.tool[1].handler.workspace))

\* the command of the last call contains a pattern of the denylist
Denylisted ==
    /\ "command" \in DOMAIN last.params.fields
    /\ \E i \in DOMAIN dangerous_patterns :
           Contains(last.params.fields.command, dangerous_patterns[i])

\* C18: a call of run_command whose command contains a pattern of the
\* denylist returns a rejection result, and no subprocess is started.
C18_DenylistBeforeExecution ==
    (BuiltinCalled("run_command") /\ Denylisted)
    => /\ last.raised = ""
       /\ ~last.value.success
       /\ last.value.error \in
              {"Blocked dangerous command pattern",
               "Access denied: working directory outside workspace"}
       /\ ~last.pending
       /\ running = None

\* C19: run_command never awaits its subprocess for longer than the timeout
\* of the call: a command that has not finished by then is abandoned.
C19_HardTimeout == running # None => running[1].elapsed <= running[1].timeout

\* C20: no step removes or replaces the entry the registry holds under a
\* name.
C20_RegistryAppendOnly ==
    [][\A name \in DOMAIN _tools :
           name \in DOMAIN _tools' /\ _tools'[name] = _tools[name]]_vars

\* the value the last call gives for a path parameter resolves outside root
OutsideRoot(root, field) ==
    /\ field \in DOMAIN last.params.fields
    /\ relative_to_raises(resolve(PathJoin(root, last.params.fields[field])),
                          resolve(root))

\* C25: for every ToolFactory constructed with a workspace W, the built-in
\* file and command tools enforce the sandbox against W, also when another
\* ToolFactory was constructed before with another workspace: a call with a
\* path (or working directory) outside W does not succeed, reads no file,
\* changes no file and starts no subprocess.
C25_SandboxOfEachFactory ==
    [][(/\ last' # last
        /\ last'.op \in {"execute_tool", "handler"}
        /\ \E fn \in {"read_file", "write_file", "list_directory",
                      "run_command"} : BuiltinCalled(fn)')
       => \A f \in DOMAIN factories :
              (OutsideRoot(factories[f], "path")'
                   \/ OutsideRoot(factories[f], "cwd")')
              => /\ ~(last'.raised = "" /\ last'.value.success)
                 /\ last'.reads = {}
                 /\ fs' = fs
                 /\ running' = None]_vars

(***************************************************************************)
(* Properties of ContextGatherer.gather_all                                *)
(***************************************************************************)
\* the number of chunks of the passes that returned a list
DoneChunkCount ==
    (IF tasks["files"].state = "done" THEN Len(tasks["files"].result) ELSE 0)
    + (IF tasks["structure"].state = "done"
       THEN Len(tasks["structure"].result) ELSE 0)
    + (IF tasks["deps"].state = "done" THEN Len(tasks["deps"].result) ELSE 0)

\* C21: gather_all returns only once every pass it started has ended, and
\* whichever pass failed, every chunk of every pass that returned a list is in
\* the list it returns (here in the order prioritize gave it) and nothing
\* else is.
C21_FailedPassKeepsOthers ==
    Prioritized =>
        /\ \A p \in Passes : tasks[p].state \in {"absent", "done", "failed"}
        /\ Len(prioritized) = DoneChunkCount
        /\ \A p \in Passes :
               tasks[p].state = "done" =>
                   \A k \in DOMAIN tasks[p].result :
                       \E i \in DOMAIN prioritized :
                           prioritized[i] = tasks[p].result[k]

C21_Witness ==
    /\ pc = "prioritized"
    /\ tasks["files"].state = "failed"
    /\ tasks["structure"].state = "done"
    /\ tasks["deps"].state = "done"
    /\ tasks["structure"].result # <<>>
    /\ tasks["deps"].result # <<>>
    /\ Len(prioritized) = DoneChunkCount

(***************************************************************************)
(* Properties of TokenBudget                                               *)
(***************************************************************************)
\* C22: no consume_input or consume_output call, whatever its argument,
\* decreases input_used or output_used.
C22_UsedNeverDecreases ==
    [][/\ budget'.input_used >= budget.input_used
       /\ budget'.output_used >= budget.output_used]_vars

(***************************************************************************)
(* Properties of ToolRegistry.get_for_task                                 *)
(***************************************************************************)
\* a call of get_tools_for_task has just returned
GetForTaskReturned == last'.op = "get_tools_for_task" /\ last' # last

\* C23: get_for_task(task_type) returns exactly the registered tools whose
\* task_types list is empty or contains task_type: every such tool is in
\* the returned list, and nothing else is
C23_GetForTaskExact ==
    [][GetForTaskReturned =>
          /\ \A n \in DOMAIN _tools :
                 _tools[n] \in last'.value
                     <=> \/ _tools[n].definition.task_types = <<>>
                         \/ \E i \in DOMAIN _tools[n].definition.task_types :
                                _tools[n].definition.task_types[i] = last'.name
          /\ \A entry \in last'.value :
                 \E n \in DOMAIN _tools : _tools[n] = entry]_vars

\* a call returned a tool of every task and a tool that lists the task type,
\* and left out a registered tool that lists other task types only
C23_Witness ==
    /\ last.op = "get_tools_for_task"
    /\ \E entry \in last.value : entry.definition.task_types = <<>>
    /\ \E entry \in last.value :
           \E i \in DOMAIN entry.definition.task_types :
               entry.definition.task_types[i] = last.name
    /\ \E n \in DOMAIN _tools :
           /\ _tools[n] \notin last.value
           /\ _tools[n].definition.task_types # <<>>

(***************************************************************************)
(* Properties of Orchestrator.execute and of the SDK event stream          *)
(***************************************************************************)
\* C26: every change of SessionInfo.state that execute makes is a transition
\* of the documented lifecycle: INITIALIZING to ACTIVE, ACTIVE to STREAMING,
\* STREAMING to IDLE, IDLE to COMPLETED, ACTIVE or IDLE to ERROR, ERROR to
\* TERMINATED, and no other
C26_DocumentedLifecycle ==
    [][(/\ session_info # None
        /\ session_info' # None
        /\ session_info'[1].session_id = session_info[1].session_id
        /\ session_info'[1].state # session_info[1].state)
       => <<session_info[1].state, session_info'[1].state>>
              \in DocumentedTransitions]_vars

\* the chunks of the four event kinds among those the stream yielded
YieldedEvents ==
    SelectSeq(stream.yielded,
              LAMBDA chunk : chunk.type \in {"text", "reasoning", "tool_call",
                                             "tool_result"})

\* C28: when the stream of an SDK response has yielded its done chunk, every
\* text, reasoning, tool_call and tool_result event the SDK delivered before
\* session.idle or the error event has been yielded before it, in delivery
\* order, whatever the interleaving of on_event, the scheduled put_nowait
\* callbacks and the consuming loop
C28_NoEventLost ==
    (stream.mode = "sdk" /\ stream.finished) => YieldedEvents = stream.delivered

\* the number of times the handler of a tool call was invoked
Executed(call) ==
    Cardinality({k \in DOMAIN executions : executions[k].call = call})

RequestedCalls ==
    {stream.delivered[i].n :
        i \in {j \in DOMAIN stream.delivered :
                  stream.delivered[j].type = "tool_call"}}

\* C29: in an SDK session no tool call the model requested is executed more
\* than once, a call the SDK ran through its registered handler is not run
\* again by the conversation loop, and when execute returns every requested
\* call has been executed exactly once
C29_ToolCallExecutedOnce ==
    stream.mode = "sdk" =>
        /\ \A call \in RequestedCalls : Executed(call) <= 1
        /\ epc = "returned" => \A call \in RequestedCalls : Executed(call) = 1

\* C30: when execute has taken the SDK path and has returned or raised, the
\* session is COMPLETED after a return and ERROR after an exception, and every
\* SDK session create_session started has been destroyed and its SDK client
\* stopped
C30_SdkSessionClosed ==
    (/\ epc \in {"returned", "raised"}
     /\ session_info # None
     /\ session_info[1].session_id = runs)
    => /\ session_info[1].state =
              (IF epc = "returned" THEN "COMPLETED" ELSE "ERROR")
       /\ \A i \in DOMAIN sdk :
              sdk[i].session # "none"
                  => sdk[i].session = "destroyed" /\ ~sdk[i].running

====
